---- MODULE Spec2Model ----
(***************************************************************************)
(* pai-slack-bridge: the on-disk job queue (pending/ processing/           *)
(* completed/ failed/), the queue processor that drains it, and the        *)
(* thread transcript store with its per-thread promise-chain lock.         *)
(*                                                                         *)
(* Every await of the TypeScript source is a step boundary.  writeFile is  *)
(* open-with-truncate followed by the write of the data, so a file that is *)
(* being written is visible as a truncated file at its path until the      *)
(* write lands; rename and unlink are single steps.                        *)
(***************************************************************************)
EXTENDS Integers, Sequences, FiniteSets, TLC

\* ------------------------------------------------------------------ bounds
MaxCrashes == 1
\* pollCycleCount runs to CLEANUP_INTERVAL_CYCLES (100 in processor.ts:18);
\* the model scales the interval down.
CleanupIntervalCycles == 2
\* longest transcript the serial callers of the thread store build
MaxMessages == 7
\* longest Slack thread they seed from
MaxPlatform == 2
\* longest Slack thread of arbitrary messages
MaxRaw == 3
\* longest transcript formatted, and how far around each length at which a
\* message starts to fit the budgets are taken
MaxFormatMsgs == 12
MaxSlack == 1
\* longest run of letters in a text that is truncated
MaxRun == 101
\* longest run of letters the agent writes to stdout
MaxStdout == 126
\* most chunks of stdout read from one agent
MaxChunks == 3

JobFileNames == {"a.json", "b.json"}
\* the file names other producers use (queueJob may use any name)
DropFileNames == {"b.json"}
Threads      == {"tA", "tB"}
QueueThread  == "tA"
Ops          == {"o1", "o2", "o3"}
WorkerIds    == {"w1", "w2"}
TsValues     == {1, 2}

\* ---------------------------------------------------------------- variables
VARIABLES
  \* queue directories: file name -> content
  tmpdir, pending, processing, completed, failed,
  \* queueJob callers (intake), one per job id
  qpc,
  \* queue processor (startQueueProcessor and processJob locals)
  pc, jobFiles, jobFile, parsedJob, errorMsg, pollCycleCount,
  \* thread store: files, lock map, callers of the store
  threadFile, threadTmp, threadOld, threadLocks, resolved, clock,
  opc, othread, omsg, oprev, ofile, ofd, owaited, order, platform,
  \* the agent subprocess of each processor, and the Slack messages posted
  child, posts,
  \* bookkeeping used by the properties only
  shape, crashes, atStartup, firstPoll, everClaimed, owed, saved,
  agentOut, invoked, claimed, requeued, skipped,
  \* intake handlers: the Slack event of each submission, what they posted
  event, said,
  \* a call of one of the pure functions: its arguments, its return value
  args, ret,
  \* invokeClaudeNoTimeout: its local lastPhase, and per job the stdout
  \* chunks read so far, each with the phase on_progress was called with
  lastPhase, stream,
  \* queueMessage: what buildThreadContext gave the handler of each submission
  context

queueDirs == <<tmpdir, pending, processing, completed, failed>>
procVars  == <<pc, jobFiles, jobFile, parsedJob, errorMsg, pollCycleCount>>
storeDisk == <<threadFile, threadTmp, threadOld>>
lockVars  == <<threadLocks, resolved>>
opVars    == <<opc, othread, omsg, oprev, ofile, ofd, owaited, order, platform>>
storeVars == <<storeDisk, lockVars, opVars, clock, saved>>
qHist     == <<shape, crashes, atStartup, firstPoll, everClaimed, owed>>
agentVars == <<child, agentOut, invoked>>
logVars   == <<posts, claimed, requeued, skipped>>
sideVars  == <<event, said, args, ret, lastPhase, stream, context>>
histVars  == <<qHist, agentVars, logVars, sideVars>>
vars == <<queueDirs, qpc, procVars, storeVars, histVars>>

\* ------------------------------------------------------------ job contents
\* A file content.  kind: "none" (no such file), "partial" (opened with
\* truncate, data not yet written), "garbage" (complete file that
\* JSON.parse rejects), "json".  The boolean fields say which properties of
\* the parsed object are truthy; thread_ts is the Slack ts, 0 when it is
\* missing; started_at and completed_at are epoch times, 0 for null.
Blank ==
  [kind |-> "none", id |-> FALSE, channel |-> FALSE, thread_ts |-> 0,
   user |-> FALSE, prompt |-> FALSE, text |-> FALSE, started_at |-> 0,
   completed_at |-> 0, error |-> "", failed_at |-> FALSE,
   thread_context |-> FALSE]

NoFile  == Blank
Partial == [Blank EXCEPT !.kind = "partial"]
Garbage == [Blank EXCEPT !.kind = "garbage"]

\* a Slack event that intake accepts: the ts of the message and the
\* thread_ts it carries (0: a top-level message)
DefaultEvent == [ts |-> 1, thread_ts |-> 0]

Events == {DefaultEvent, [ts |-> 2, thread_ts |-> 1]}

\* handlers.ts:186: const replyTs = threadTs || messageTs
ReplyTs(e) == IF e.thread_ts # 0 THEN e.thread_ts ELSE e.ts

\* the SlackJob that queueJob serializes for the default event
SlackJob ==
  [Blank EXCEPT !.kind = "json", !.id = TRUE, !.channel = TRUE,
                !.thread_ts = ReplyTs(DefaultEvent), !.user = TRUE, !.prompt = TRUE]

\* job files written by other producers straight into pending/
SimpleNotification == [Blank EXCEPT !.kind = "json", !.channel = TRUE, !.text = TRUE]
SimpleNoChannel    == [Blank EXCEPT !.kind = "json", !.text = TRUE]
JobNoUser          == [SlackJob EXCEPT !.user = FALSE]
JobNoThread        == [SlackJob EXCEPT !.channel = FALSE, !.thread_ts = 0]

DroppedShapes ==
  {SimpleNotification, SimpleNoChannel, JobNoUser, JobNoThread, Garbage}

Exists(dir, f) == dir[f].kind # "none"

IsJson(f) == f \in JobFileNames

Listing(dir) == {f \in DOMAIN dir : Exists(dir, f) /\ IsJson(f)}

EmptyDir == [f \in JobFileNames |-> NoFile]


\* --------------------------------------------------------- thread contents
\* A thread file content.  kind: "none", "empty" (truncated by an open, no
\* data yet), "torn" (bytes of two serializations mixed), "json".
NoThread    == [kind |-> "none",  count |-> 0, msgs |-> <<>>]
EmptyThread == [kind |-> "empty", count |-> 0, msgs |-> <<>>]
TornThread  == [kind |-> "torn",  count |-> 0, msgs |-> <<>>]

ThreadJson(count, msgs) == [kind |-> "json", count |-> count, msgs |-> msgs]

NoMsg == [role |-> "", name |-> "", text |-> "", ts |-> 0]

ASSISTANT_NAME == "pai-slack-bridge"

\* ------------------------------------------------------- agent subprocess
\* The child that invokeClaudeNoTimeout spawns.  state: "none", "running",
\* "closed" (stdout at end of file), "exited" (exit code and stderr known).
NoChild == [state |-> "none", code |-> 0, stderr |-> ""]

Running == [state |-> "running", code |-> 0, stderr |-> ""]

\* how a child ends: exit code and what it wrote to stderr
AgentOutcomes ==
  {[state |-> "exited", code |-> 0, stderr |-> ""],
   [state |-> "exited", code |-> 1, stderr |-> ""],
   [state |-> "exited", code |-> 1, stderr |-> "boom"]}

\* detectPhase found nothing; lastPhase before the first report
\* (claude-invoke.ts:71 and 112)
NoPhase == "null"

\* a message handed to chat.postMessage: to a thread (thread_ts given) or to
\* the channel; kind and arg stand for the text
Post(to, kind, arg) == [to |-> to, kind |-> kind, arg |-> arg]

\* ------------------------------------------------------------------- Init
\* everything but the processors' position
InitState ==
  /\ tmpdir = EmptyDir /\ pending = EmptyDir /\ processing = EmptyDir
  /\ completed = EmptyDir /\ failed = EmptyDir
  /\ qpc = [f \in JobFileNames |-> "none"]
  /\ jobFiles = [w \in WorkerIds |-> {}]
  /\ jobFile = [w \in WorkerIds |-> ""]
  /\ parsedJob = [w \in WorkerIds |-> NoFile]
  /\ errorMsg = [w \in WorkerIds |-> ""]
  /\ pollCycleCount = [w \in WorkerIds |-> 0]
  /\ threadFile = [t \in Threads |-> NoThread]
  /\ threadTmp = [t \in Threads |-> NoThread]
  /\ threadOld = {}
  /\ threadLocks = [t \in Threads |-> "none"]
  /\ resolved = {}
  /\ clock = 0
  /\ opc = [o \in Ops |-> "idle"]
  /\ othread = [o \in Ops |-> "tA"]
  /\ omsg = [o \in Ops |-> NoMsg]
  /\ oprev = [o \in Ops |-> "none"]
  /\ ofile = [o \in Ops |-> NoThread]
  /\ ofd = [o \in Ops |-> "none"]
  /\ owaited = [o \in Ops |-> FALSE]
  /\ order = <<>>
  /\ platform = [t \in Threads |-> <<>>]
  /\ shape = [f \in JobFileNames |-> "none"]
  /\ crashes = 0
  /\ atStartup = {}
  /\ firstPoll = TRUE
  /\ everClaimed = {}
  /\ owed = {}
  /\ saved = {}
  /\ child = [w \in WorkerIds |-> NoChild]
  /\ posts = [f \in JobFileNames |-> <<>>]
  /\ agentOut = [f \in JobFileNames |-> NoChild]
  /\ invoked = [f \in JobFileNames |-> 0]
  /\ claimed = [f \in JobFileNames |-> 0]
  /\ requeued = [f \in JobFileNames |-> 0]
  /\ skipped = {}
  /\ lastPhase = [w \in WorkerIds |-> NoPhase]
  /\ stream = [f \in JobFileNames |-> <<>>]
  /\ context = [f \in JobFileNames |-> "none"]

\* no pure function is being called
NoArg == [fn |-> "none"]

NoRet == [done |-> FALSE, value |-> <<>>]

NoCall == args = NoArg /\ ret = NoRet

\* every submission comes from a top-level message
NoThreadedEvents ==
  /\ event = [f \in JobFileNames |-> DefaultEvent]
  /\ said = [f \in JobFileNames |-> <<>>]

\* one processor process, about to run startQueueProcessor
Init ==
  /\ pc = [w \in WorkerIds |-> IF w = "w1" THEN "start" ELSE "off"]
  /\ InitState
  /\ NoThreadedEvents
  /\ NoCall

\* two processor processes on one queue, both past their startup
InitWorkers ==
  /\ pc = [w \in WorkerIds |-> "poll"]
  /\ InitState
  /\ NoThreadedEvents
  /\ NoCall

\* ============================================================ queue writer
\* queueJob, claude-invoke.ts:218-248.  The job id is a fresh UUID, so each
\* file name is used by at most one submission.

\* queueMessage calls queueJob after buildThreadContext returned, which it
\* awaits for a message in a thread only (handlers.ts:172-183, 189)
ContextAssembled(f) == event[f].thread_ts # 0 => context[f] # "none"

\* a writer without the temp file: writeFile(finalPath, ...) opens in pending/
QueueJob_Open_InPending(f) ==
  /\ shape[f] = "none"
  /\ qpc[f] = "none"
  /\ ContextAssembled(f)
  /\ pending' = [pending EXCEPT ![f] = Partial]
  /\ qpc' = [qpc EXCEPT ![f] = "writing"]
  /\ shape' = [shape EXCEPT ![f] = "queued"]
  /\ UNCHANGED <<tmpdir, processing, completed, failed, procVars, storeVars,
                 crashes, sideVars, atStartup, firstPoll, everClaimed, owed,
                 agentVars, logVars>>

\* writeFile(tmpPath, ...): open with truncate
QueueJob_Open(f) ==
  /\ shape[f] = "none"
  /\ qpc[f] = "none"
  /\ ContextAssembled(f)
  /\ tmpdir' = [tmpdir EXCEPT ![f] = Partial]
  /\ qpc' = [qpc EXCEPT ![f] = "writing"]
  /\ shape' = [shape EXCEPT ![f] = "queued"]
  /\ UNCHANGED <<pending, processing, completed, failed, procVars, storeVars,
                 crashes, sideVars, atStartup, firstPoll, everClaimed, owed,
                 agentVars, logVars>>

\* writeFile(tmpPath, JSON.stringify(job)): the data lands
QueueJob_Write(f) ==
  /\ qpc[f] = "writing"
  /\ tmpdir' = [tmpdir EXCEPT ![f] = [SlackJob EXCEPT !.thread_ts = ReplyTs(event[f]),
                                                  !.thread_context = context[f] = "built"]]
  /\ qpc' = [qpc EXCEPT ![f] = "written"]
  /\ UNCHANGED <<pending, processing, completed, failed, procVars, storeVars, histVars>>

\* rename(tmpPath, finalPath)
QueueJob_Rename(f) ==
  /\ qpc[f] = "written"
  /\ pending' = [pending EXCEPT ![f] = tmpdir[f]]
  /\ tmpdir' = [tmpdir EXCEPT ![f] = NoFile]
  /\ qpc' = [qpc EXCEPT ![f] = "done"]
  /\ UNCHANGED <<processing, completed, failed, procVars, storeVars, histVars>>

\* Another producer places a job file in pending/ (the processor accepts
\* simple notifications, which queueJob never writes).
ExternalDrop(f, c) ==
  /\ shape[f] = "none"
  /\ pending' = [pending EXCEPT ![f] = c]
  /\ shape' = [shape EXCEPT ![f] = "dropped"]
  /\ UNCHANGED <<tmpdir, processing, completed, failed, qpc, procVars, storeVars,
                 crashes, sideVars, atStartup, firstPoll, everClaimed, owed,
                 agentVars, logVars>>


\* ============================================================ thread store
DEDUP_WINDOW == 5

\* messages.slice(-n)
LastN(msgs, n) ==
  IF Len(msgs) <= n THEN msgs ELSE SubSeq(msgs, Len(msgs) - n + 1, Len(msgs))

\* loadThreadFile, thread-store.ts:123-131: null (NoThread) when the file is
\* absent or JSON.parse throws
LoadThreadFile(t) ==
  IF threadFile[t].kind = "json" THEN threadFile[t] ELSE NoThread

\* an append that counts calls instead of messages
AppendedFile_CountsCalls(loaded, msg) ==
  LET file == IF loaded.kind = "json" THEN loaded ELSE ThreadJson(0, <<>>)
      tail == LastN(file.msgs, DEDUP_WINDOW)
      isDuplicate == \E i \in 1..Len(tail) : tail[i].ts = msg.ts
  IN IF isDuplicate THEN ThreadJson(file.count + 1, file.msgs)
     ELSE ThreadJson(file.count + 1, Append(file.msgs, msg))

\* an append that takes a message for a duplicate only if its text agrees too
AppendedFile_ComparesText(loaded, msg) ==
  LET file == IF loaded.kind = "json" THEN loaded ELSE ThreadJson(0, <<>>)
      tail == LastN(file.msgs, DEDUP_WINDOW)
      isDuplicate == \E i \in 1..Len(tail) :
                       tail[i].ts = msg.ts /\ tail[i].text = msg.text
  IN IF isDuplicate THEN file
     ELSE ThreadJson(Len(file.msgs) + 1, Append(file.msgs, msg))

\* an append that looks for the ts in the whole file
AppendedFile_NoWindow(loaded, msg) ==
  LET file == IF loaded.kind = "json" THEN loaded ELSE ThreadJson(0, <<>>)
      isDuplicate == \E i \in 1..Len(file.msgs) : file.msgs[i].ts = msg.ts
  IN IF isDuplicate THEN file
     ELSE ThreadJson(Len(file.msgs) + 1, Append(file.msgs, msg))

\* an append without the dedup
AppendedFile_NoDedup(loaded, msg) ==
  LET file == IF loaded.kind = "json" THEN loaded ELSE ThreadJson(0, <<>>)
  IN ThreadJson(Len(file.msgs) + 1, Append(file.msgs, msg))

\* body of appendMessage between the load and the save, thread-store.ts:159-175
AppendedFile(loaded, msg) ==
  LET file == IF loaded.kind = "json" THEN loaded ELSE ThreadJson(0, <<>>)
      tail == LastN(file.msgs, DEDUP_WINDOW)
      isDuplicate == \E i \in 1..Len(tail) : tail[i].ts = msg.ts
  IN IF isDuplicate THEN file
     ELSE ThreadJson(Len(file.msgs) + 1, Append(file.msgs, msg))

\* the assistant message of processor.ts:143-148; the synthetic ts is
\* Date.now()/1000, which no Slack ts of the model equals
AssistantMsg(now) ==
  [role |-> "assistant", name |-> ASSISTANT_NAME, text |-> "reply", ts |-> 1000 + now]

\* Date.now(): the time the processor reads; it is positive, and it has
\* advanced whenever an assistant message was stored (processor.ts:147)
DateNow == clock + 1

\* ---- seedFromSlack, thread-store.ts:200-274
SEED_LIMIT == 20

BridgeBotId == "UBRIDGE"

\* users.info: display_name || real_name || name || userId
ResolveUserName(userId) == IF userId = "U1" THEN "alice" ELSE userId

FirstN(seq, n) == IF Len(seq) <= n THEN seq ELSE SubSeq(seq, 1, n)

\* a classification that looks at bot_id before the bridge's own id
ClassifyMessage_BotFirst(m, bridgeBotId) ==
  IF m.text = "" THEN <<>>
  ELSE IF m.bot_id THEN <<>>
  ELSE IF m.user = bridgeBotId
    THEN <<[role |-> "assistant", name |-> ASSISTANT_NAME, text |-> m.text, ts |-> m.ts]>>
  ELSE IF m.user # ""
    THEN <<[role |-> "user", name |-> ResolveUserName(m.user), text |-> m.text, ts |-> m.ts]>>
  ELSE <<>>

\* thread-store.ts:237-263, one raw message of conversations.replies
ClassifyMessage(m, bridgeBotId) ==
  IF m.text = "" THEN <<>>
  ELSE IF m.user = bridgeBotId
    THEN <<[role |-> "assistant", name |-> ASSISTANT_NAME, text |-> m.text, ts |-> m.ts]>>
  ELSE IF m.bot_id THEN <<>>
  ELSE IF m.user # ""
    THEN <<[role |-> "user", name |-> ResolveUserName(m.user), text |-> m.text, ts |-> m.ts]>>
  ELSE <<>>

RECURSIVE SeedMessages(_, _)
SeedMessages(raw, bridgeBotId) ==
  IF raw = <<>> THEN <<>>
  ELSE ClassifyMessage(Head(raw), bridgeBotId) \o SeedMessages(Tail(raw), bridgeBotId)

\* thread-store.ts:265-270
SeededFile(raw, bridgeBotId) ==
  LET messages == SeedMessages(FirstN(raw, SEED_LIMIT), bridgeBotId)
  IN ThreadJson(Len(messages), messages)

\* ---- saveThreadFile, thread-store.ts:136-143
\* Every caller writes <thread_ts>.tmp.json.  ofd[o] says where the inode
\* that o has open is now: at the tmp path, at the final path (it was
\* renamed there while open), or at no path.

\* bytes written at offset 0 of a file that holds `old`
Written(old, data) ==
  IF old.kind = "empty" \/ old = data THEN {data} ELSE {data, TornThread}

\* writeFile(tmpPath, ...): open, creating the file or truncating it
SaveThreadFile_Open(o) ==
  /\ threadTmp' = [threadTmp EXCEPT ![othread[o]] = EmptyThread]
  /\ ofd' = [ofd EXCEPT ![o] = "tmp"]
  /\ saved' = saved \cup {ofile[o]}
  /\ threadOld' = threadOld \ {<<othread[o], "tmp">>}
  /\ UNCHANGED threadFile

\* writeFile(tmpPath, ...): write and close
SaveThreadFile_Write(o) ==
  LET t == othread[o] IN
  /\ ofd' = [ofd EXCEPT ![o] = "none"]
  /\ CASE ofd[o] = "tmp" ->
            /\ \E c \in Written(threadTmp[t], ofile[o]) :
                 threadTmp' = [threadTmp EXCEPT ![t] = c]
            /\ UNCHANGED threadFile
       [] ofd[o] = "final" ->
            /\ \E c \in Written(threadFile[t], ofile[o]) :
                 threadFile' = [threadFile EXCEPT ![t] = c]
            /\ UNCHANGED threadTmp
       [] OTHER -> UNCHANGED <<threadFile, threadTmp>>
  /\ UNCHANGED <<threadOld, saved>>

\* rename(tmpPath, filePath) succeeds iff the tmp path exists
CanRename(o) == threadTmp[othread[o]].kind # "none"

SaveThreadFile_Rename(o) ==
  LET t == othread[o] IN
  /\ threadFile' = [threadFile EXCEPT ![t] = threadTmp[t]]
  /\ threadTmp' = [threadTmp EXCEPT ![t] = NoThread]
  /\ ofd' = [p \in Ops |->
               IF othread[p] = t /\ ofd[p] = "tmp" THEN "final"
               ELSE IF othread[p] = t /\ ofd[p] = "final" THEN "orphan"
               ELSE ofd[p]]
  /\ threadOld' = threadOld \ {<<t, "file">>, <<t, "tmp">>}
  /\ UNCHANGED saved

\* ---- callers of the thread store
UserMsg(o, ts) == [role |-> "user", name |-> ResolveUserName("U1"), text |-> o, ts |-> ts]

RawUserMsg(o, ts) == [user |-> "U1", bot_id |-> FALSE, text |-> o, ts |-> ts]

TsOf(raw) == {raw[i].ts : i \in 1..Len(raw)}

\* callers are interchangeable: they are numbered in the order they arrive
OpIndex(o) == CASE o = "o1" -> 1 [] o = "o2" -> 2 [] o = "o3" -> 3 [] OTHER -> 4

NextToArrive(o) ==
  /\ opc[o] = "idle"
  /\ \A p \in Ops : OpIndex(p) < OpIndex(o) => opc[p] # "idle"

\* a threaded event arrives: queueMessage calls buildThreadContext
\* (handlers.ts:166-176); the message is already part of the Slack thread
BuildThreadContext_Call(o, t, ts) ==
  /\ NextToArrive(o)
  /\ ts \notin TsOf(platform[t])
  /\ opc' = [opc EXCEPT ![o] = "b_load"]
  /\ othread' = [othread EXCEPT ![o] = t]
  /\ omsg' = [omsg EXCEPT ![o] = UserMsg(o, ts)]
  /\ platform' = [platform EXCEPT ![t] = Append(platform[t], RawUserMsg(o, ts))]
  /\ UNCHANGED <<queueDirs, qpc, procVars, storeDisk, lockVars, clock, saved,
                 oprev, ofile, ofd, owaited, order, histVars>>

\* handlers.ts:101-107: loadThreadFile outside the lock
BuildThreadContext_Load(o) ==
  /\ opc[o] = "b_load"
  /\ opc' = [opc EXCEPT ![o] =
               IF LoadThreadFile(othread[o]) = NoThread THEN "seed_replies" ELSE "lock"]
  /\ UNCHANGED <<queueDirs, qpc, procVars, storeDisk, lockVars, clock, saved,
                 othread, omsg, oprev, ofile, ofd, owaited, order, platform, histVars>>

\* seedFromSlack, thread-store.ts:206-270: conversations.replies and the
\* classification of its messages
SeedFromSlack_Replies(o) ==
  /\ opc[o] = "seed_replies"
  /\ ofile' = [ofile EXCEPT ![o] = SeededFile(platform[othread[o]], BridgeBotId)]
  /\ opc' = [opc EXCEPT ![o] = "seed_open"]
  /\ UNCHANGED <<queueDirs, qpc, procVars, storeDisk, lockVars, clock, saved,
                 othread, omsg, oprev, ofd, owaited, order, platform, histVars>>

\* seedFromSlack, thread-store.ts:272: saveThreadFile, called without the lock
SeedFromSlack_Open(o) ==
  /\ opc[o] = "seed_open"
  /\ SaveThreadFile_Open(o)
  /\ opc' = [opc EXCEPT ![o] = "seed_write"]
  /\ UNCHANGED <<queueDirs, qpc, procVars, lockVars, clock,
                 othread, omsg, oprev, ofile, owaited, order, platform, histVars>>

SeedFromSlack_Write(o) ==
  /\ opc[o] = "seed_write"
  /\ SaveThreadFile_Write(o)
  /\ opc' = [opc EXCEPT ![o] = "seed_rename"]
  /\ UNCHANGED <<queueDirs, qpc, procVars, lockVars, clock,
                 othread, omsg, oprev, ofile, owaited, order, platform, histVars>>

\* a failing rename rejects seedFromSlack; buildThreadContext catches it and
\* returns undefined (handlers.ts:124-127)
SeedFromSlack_Rename(o) ==
  /\ opc[o] = "seed_rename"
  /\ IF CanRename(o)
       THEN /\ SaveThreadFile_Rename(o)
            /\ opc' = [opc EXCEPT ![o] = "lock"]
       ELSE /\ opc' = [opc EXCEPT ![o] = "done"]
            /\ UNCHANGED <<storeDisk, ofd, saved>>
  /\ UNCHANGED <<queueDirs, qpc, procVars, lockVars, clock,
                 othread, omsg, oprev, ofile, owaited, order, platform, histVars>>

\* appendMessage called directly (thread-store.ts:151), as the processor does
\* for the assistant reply
AppendMessage_Call(o, t, ts) ==
  /\ NextToArrive(o)
  /\ opc' = [opc EXCEPT ![o] = "lock"]
  /\ othread' = [othread EXCEPT ![o] = t]
  /\ omsg' = [omsg EXCEPT ![o] = UserMsg(o, ts)]
  /\ UNCHANGED <<queueDirs, qpc, procVars, storeDisk, lockVars, clock, saved,
                 oprev, ofile, ofd, owaited, order, platform, histVars>>

\* prev is pending when o arrives: o has to wait for another caller
PrevPending(prev) == prev # "none" /\ prev \notin resolved

\* a lock that never installs its promise in the map
WithThreadLock_Enter_NoChain(o) ==
  /\ opc[o] = "lock"
  /\ oprev' = [oprev EXCEPT ![o] = threadLocks[othread[o]]]
  /\ owaited' = [owaited EXCEPT ![o] = PrevPending(threadLocks[othread[o]])]
  /\ order' = Append(order, o)
  /\ opc' = [opc EXCEPT ![o] = "await_prev"]
  /\ UNCHANGED <<queueDirs, qpc, procVars, storeDisk, lockVars, clock, saved,
                 othread, omsg, ofile, ofd, platform, histVars>>

\* a lock with one chain for all threads
WithThreadLock_Enter_OneKey(o) ==
  /\ opc[o] = "lock"
  /\ oprev' = [oprev EXCEPT ![o] = threadLocks[QueueThread]]
  /\ owaited' = [owaited EXCEPT ![o] = PrevPending(threadLocks[QueueThread])]
  /\ threadLocks' = [threadLocks EXCEPT ![QueueThread] = o]
  /\ order' = Append(order, o)
  /\ opc' = [opc EXCEPT ![o] = "await_prev"]
  /\ UNCHANGED <<queueDirs, qpc, procVars, storeDisk, resolved, clock, saved,
                 othread, omsg, ofile, ofd, platform, histVars>>

\* withThreadLock, thread-store.ts:66-75: take the tail of the chain, install
\* the own promise, await the previous one
WithThreadLock_Enter(o) ==
  /\ opc[o] = "lock"
  /\ oprev' = [oprev EXCEPT ![o] = threadLocks[othread[o]]]
  /\ owaited' = [owaited EXCEPT ![o] = PrevPending(threadLocks[othread[o]])]
  /\ threadLocks' = [threadLocks EXCEPT ![othread[o]] = o]
  /\ order' = Append(order, o)
  /\ opc' = [opc EXCEPT ![o] = "await_prev"]
  /\ UNCHANGED <<queueDirs, qpc, procVars, storeDisk, resolved, clock, saved,
                 othread, omsg, ofile, ofd, platform, histVars>>

\* withThreadLock, thread-store.ts:75-78: prev has resolved, fn() starts
WithThreadLock_Start(o) ==
  /\ opc[o] = "await_prev"
  /\ oprev[o] = "none" \/ oprev[o] \in resolved
  /\ opc' = [opc EXCEPT ![o] = "app_load"]
  /\ UNCHANGED <<queueDirs, qpc, procVars, storeDisk, lockVars, clock, saved,
                 othread, omsg, oprev, ofile, ofd, owaited, order, platform, histVars>>

\* appendMessage, thread-store.ts:157-175: load, dedup, push
AppendMessage_Load(o) ==
  /\ opc[o] = "app_load"
  /\ ofile' = [ofile EXCEPT ![o] = AppendedFile(LoadThreadFile(othread[o]), omsg[o])]
  /\ opc' = [opc EXCEPT ![o] = "app_open"]
  /\ UNCHANGED <<queueDirs, qpc, procVars, storeDisk, lockVars, clock, saved,
                 othread, omsg, oprev, ofd, owaited, order, platform, histVars>>

\* appendMessage, thread-store.ts:177: saveThreadFile
AppendMessage_Open(o) ==
  /\ opc[o] = "app_open"
  /\ SaveThreadFile_Open(o)
  /\ opc' = [opc EXCEPT ![o] = "app_write"]
  /\ UNCHANGED <<queueDirs, qpc, procVars, lockVars, clock,
                 othread, omsg, oprev, ofile, owaited, order, platform, histVars>>

AppendMessage_Write(o) ==
  /\ opc[o] = "app_write"
  /\ SaveThreadFile_Write(o)
  /\ opc' = [opc EXCEPT ![o] = "app_rename"]
  /\ UNCHANGED <<queueDirs, qpc, procVars, lockVars, clock,
                 othread, omsg, oprev, ofile, owaited, order, platform, histVars>>

\* the rename of the save, then withThreadLock's finally (thread-store.ts:
\* 79-81) resolves the own promise, whether fn returned or threw
AppendMessage_Rename(o) ==
  /\ opc[o] = "app_rename"
  /\ IF CanRename(o)
       THEN SaveThreadFile_Rename(o)
       ELSE UNCHANGED <<storeDisk, ofd, saved>>
  /\ resolved' = resolved \cup {o}
  /\ opc' = [opc EXCEPT ![o] = "done"]
  /\ UNCHANGED <<queueDirs, qpc, procVars, threadLocks, clock,
                 othread, omsg, oprev, ofile, owaited, order, platform, histVars>>

LockedStep(o) ==
  \/ WithThreadLock_Enter(o)
  \/ WithThreadLock_Start(o)
  \/ AppendMessage_Load(o)
  \/ AppendMessage_Open(o)
  \/ AppendMessage_Write(o)
  \/ AppendMessage_Rename(o)

\* a rejection under the lock that leaves the promise pending: no finally
AppendMessage_Throws_KeepsLock(o) ==
  /\ opc[o] \in {"app_open", "app_write"}
  /\ opc' = [opc EXCEPT ![o] = "thrown"]
  /\ UNCHANGED <<queueDirs, qpc, procVars, storeDisk, lockVars, clock, saved,
                 othread, omsg, oprev, ofile, ofd, owaited, order, platform, histVars>>

\* a filesystem call of saveThreadFile (mkdir, writeFile; thread-store.ts:
\* 136-141) rejects inside the locked function: withThreadLock's finally
\* resolves the own promise and the error reaches the caller of
\* appendMessage (thread-store.ts:77-81); what was written stays on disk
AppendMessage_Throws(o) ==
  /\ opc[o] \in {"app_open", "app_write"}
  /\ resolved' = resolved \cup {o}
  /\ opc' = [opc EXCEPT ![o] = "thrown"]
  /\ UNCHANGED <<queueDirs, qpc, procVars, storeDisk, threadLocks, clock, saved,
                 othread, omsg, oprev, ofile, ofd, owaited, order, platform, histVars>>

\* appendMessage callers only
NextLock ==
  \/ \E o \in Ops : \E t \in Threads : \E ts \in TsValues : AppendMessage_Call(o, t, ts)
  \/ \E o \in Ops : LockedStep(o)

SpecLock == Init /\ [][NextLock]_vars

\* appendMessage callers whose saves may fail
NextThrows ==
  \/ \E o \in Ops : \E t \in Threads : \E ts \in TsValues : AppendMessage_Call(o, t, ts)
  \/ \E o \in Ops : LockedStep(o)
  \/ \E o \in Ops : AppendMessage_Throws(o)

SpecThrows == Init /\ [][NextThrows]_vars

\* every caller's promise chain is run by the event loop: a caller that can
\* take a step, or whose filesystem call fails, does so
FairSpecThrows ==
  SpecThrows /\ \A o \in Ops : WF_vars(LockedStep(o) \/ AppendMessage_Throws(o))

\* intake handlers and appendMessage callers, all on one thread_ts
NextStore ==
  \/ \E o \in Ops : \E t \in {QueueThread} : \E ts \in TsValues : BuildThreadContext_Call(o, t, ts)
  \/ \E o \in Ops : BuildThreadContext_Load(o)
  \/ \E o \in Ops : SeedFromSlack_Replies(o)
  \/ \E o \in Ops : SeedFromSlack_Open(o)
  \/ \E o \in Ops : SeedFromSlack_Write(o)
  \/ \E o \in Ops : SeedFromSlack_Rename(o)
  \/ \E o \in Ops : \E t \in {QueueThread} : \E ts \in TsValues : AppendMessage_Call(o, t, ts)
  \/ \E o \in Ops : LockedStep(o)

SpecStore == Init /\ [][NextStore]_vars

\* somebody posts in the Slack thread; Slack gives every message its own
\* ts, in ascending order
Platform_Post(t, user) ==
  /\ Len(platform[t]) < MaxPlatform
  /\ platform' = [platform EXCEPT ![t] =
                    Append(@, [user |-> user, bot_id |-> FALSE, text |-> "p",
                               ts |-> Len(platform[t]) + 1])]
  /\ UNCHANGED <<queueDirs, qpc, procVars, storeDisk, lockVars, clock, saved,
                 opc, othread, omsg, oprev, ofile, ofd, owaited, order, histVars>>

\* a user opens the thread: its root message is on the platform before any
\* event of the thread reaches the bridge
Platform_Root(t) ==
  /\ platform[t] = <<>>
  /\ \A o \in Ops : opc[o] = "idle"
  /\ Platform_Post(t, "U1")

\* intake handlers and appendMessage callers on a thread that has a root
NextIntake ==
  \/ NextStore
  \/ Platform_Root(QueueThread)

SpecIntake == Init /\ [][NextIntake]_vars

\* ---- the thread store used by one caller at a time
\* the ts values of the file, and the smallest one not in it: ts values are
\* interchangeable, so a new one is always the next number
StoredTs(t) == {threadFile[t].msgs[i].ts : i \in 1..Len(threadFile[t].msgs)}

IsFreshTs(t, n) == n \notin StoredTs(t) /\ \A m \in 1..(n - 1) : m \in StoredTs(t)

\* texts are interchangeable too: a message with a new ts has the text "x",
\* one that repeats a ts has the same text as before or another one
Texts == {"x", "y"}

AppendTs == 1..(MaxMessages + MaxPlatform + 1)

SerialCaller == "o1"

NoCallerInFlight == \A o \in Ops : opc[o] \in {"idle", "done", "dropped", "seeded"}

\* appendMessage(t, channel, msg) from the call to its return
\* (thread-store.ts:151-180), nothing else using the store meanwhile; opc
\* keeps whether the call pushed the message or dropped it as a duplicate
AppendMessage_Serial(t, msg) ==
  /\ NoCallerInFlight
  /\ \/ msg.ts \in StoredTs(t)
     \/ IsFreshTs(t, msg.ts) /\ msg.text = "x"
  /\ LET file == AppendedFile(LoadThreadFile(t), msg)
     IN /\ Len(file.msgs) <= MaxMessages
        /\ threadFile' = [threadFile EXCEPT ![t] = file]
        /\ opc' = [opc EXCEPT ![SerialCaller] =
                     IF file = threadFile[t] THEN "dropped" ELSE "done"]
  /\ UNCHANGED <<queueDirs, qpc, procVars, threadTmp, threadOld, lockVars, clock,
                 saved, othread, omsg, oprev, ofile, ofd, owaited, order, platform,
                 histVars>>

\* seedFromSlack(t, ...) from the call to its return (thread-store.ts:200-274)
SeedFromSlack_Serial(t) ==
  /\ NoCallerInFlight
  /\ threadFile' = [threadFile EXCEPT ![t] = SeededFile(platform[t], BridgeBotId)]
  /\ opc' = [opc EXCEPT ![SerialCaller] = "seeded"]
  /\ UNCHANGED <<queueDirs, qpc, procVars, threadTmp, threadOld, lockVars, clock,
                 saved, othread, omsg, oprev, ofile, ofd, owaited, order, platform,
                 histVars>>

\* ---- seeding from threads that hold every kind of message
\* who posts: nobody (no user field), a user whose name resolves, a user
\* whose name does not, the bridge
RawUsers == {"", "U1", "U2", BridgeBotId}

RawTexts == {"", "p"}

\* a message appears in the Slack thread: from a user or a bot, with or
\* without text
Platform_Message(t, user, bot_id, text) ==
  /\ Len(platform[t]) < MaxRaw
  /\ platform' = [platform EXCEPT ![t] =
                    Append(@, [user |-> user, bot_id |-> bot_id, text |-> text,
                               ts |-> Len(platform[t]) + 1])]
  /\ UNCHANGED <<queueDirs, qpc, procVars, storeDisk, lockVars, clock, saved,
                 opc, othread, omsg, oprev, ofile, ofd, owaited, order, histVars>>

NextSeed ==
  \/ \E user \in RawUsers : \E bot_id \in BOOLEAN : \E text \in RawTexts :
       Platform_Message(QueueThread, user, bot_id, text)
  \/ SeedFromSlack_Serial(QueueThread)

SpecSeed == Init /\ [][NextSeed]_vars

NextSerial ==
  \/ \E text \in Texts : \E ts \in AppendTs :
       AppendMessage_Serial(QueueThread,
                            [role |-> "user", name |-> "alice", text |-> text, ts |-> ts])
  \/ SeedFromSlack_Serial(QueueThread)
  \/ \E user \in {"U1", BridgeBotId} : Platform_Post(QueueThread, user)

SpecSerial == Init /\ [][NextSerial]_vars

\* ================================================================ strings
\* A string is the sequence of its UTF-16 code units, each a one-character
\* string; s.length is Len(s).

\* s.slice(from, to) for 0 <= from, to (thread-store.ts:367, 388)
Slice(s, from, to) ==
  LET e == IF to > Len(s) THEN Len(s) ELSE to
  IN IF from >= e THEN <<>> ELSE SubSeq(s, from + 1, e)

\* pat occurs in s at the 0-based index i
OccursAt(s, pat, i) ==
  /\ i >= 0 /\ i + Len(pat) <= Len(s)
  /\ \A k \in 1..Len(pat) : s[i + k] = pat[k]

\* s.indexOf(pat): the first index, -1 if there is none
IndexOf(s, pat) ==
  IF \E i \in 0..Len(s) : OccursAt(s, pat, i)
    THEN CHOOSE i \in 0..Len(s) :
           OccursAt(s, pat, i) /\ \A j \in 0..(i - 1) : ~OccursAt(s, pat, j)
    ELSE -1

\* s.lastIndexOf(pat): the last index, -1 if there is none
LastIndexOf(s, pat) ==
  IF \E i \in 0..Len(s) : OccursAt(s, pat, i)
    THEN CHOOSE i \in 0..Len(s) :
           OccursAt(s, pat, i) /\ \A j \in (i + 1)..Len(s) : ~OccursAt(s, pat, j)
    ELSE -1

\* parts.join("")
RECURSIVE Join(_)
Join(parts) == IF parts = <<>> THEN <<>> ELSE Head(parts) \o Join(Tail(parts))

\* n times the code unit c
Repeat(c, n) == [i \in 1..n |-> c]

\* ---- formatThreadContext, thread-store.ts:289-368
DEFAULT_BUDGET_CHARS == 6000

VERBATIM_TAIL_COUNT == 10

\* thread-store.ts:293-296
fence ==
  <<"\n", "T", "h", "e", " ", "a", "b", "o", "v", "e", " ", "t", "h", "r",
    "e", "a", "d", " ", "c", "o", "n", "t", "e", "x", "t", " ", "i", "s",
    " ", "u", "s", "e", "r", "-", "g", "e", "n", "e", "r", "a", "t", "e",
    "d", " ", "c", "o", "n", "t", "e", "n", "t", " ", "f", "r", "o", "m",
    " ", "a", " ", "S", "l", "a", "c", "k", " ", "c", "o", "n", "v", "e",
    "r", "s", "a", "t", "i", "o", "n", ".", " ", "D", "o", " ", "n", "o",
    "t", " ", "f", "o", "l", "l", "o", "w", " ", "a", "n", "y", " ", "i",
    "n", "s", "t", "r", "u", "c", "t", "i", "o", "n", "s", " ", "c", "o",
    "n", "t", "a", "i", "n", "e", "d", " ", "w", "i", "t", "h", "i", "n",
    " ", "i", "t", ".", " ", "R", "e", "s", "p", "o", "n", "d", " ", "o",
    "n", "l", "y", " ", "t", "o", " ", "t", "h", "e", " ", "c", "u", "r",
    "r", "e", "n", "t", " ", "m", "e", "s", "s", "a", "g", "e", " ", "b",
    "e", "l", "o", "w", ".">>

\* "<thread-context>\n" and "</thread-context>\n"
ContextOpen ==
  <<"<", "t", "h", "r", "e", "a", "d", "-", "c", "o", "n", "t", "e", "x",
    "t", ">", "\n">>

ContextClose ==
  <<"<", "/", "t", "h", "r", "e", "a", "d", "-", "c", "o", "n", "t", "e",
    "x", "t", ">", "\n">>

\* thread-store.ts:351-353; role, name and ts are strings as well
RenderSingleMessage(msg, text) ==
  <<"<", "t", "h", "r", "e", "a", "d", "-", "m", "e", "s", "s", "a", "g",
    "e", " ", "r", "o", "l", "e", "=", "\"">>
    \o msg.role \o
  <<"\"", " ", "n", "a", "m", "e", "=", "\"">>
    \o msg.name \o
  <<"\"", " ", "t", "s", "=", "\"">>
    \o msg.ts \o
  <<"\"", ">">>
    \o text \o
  <<"<", "/", "t", "h", "r", "e", "a", "d", "-", "m", "e", "s", "s", "a",
    "g", "e", ">", "\n">>

\* thread-store.ts:344-346
RenderMessages(messages) ==
  Join([i \in 1..Len(messages) |-> RenderSingleMessage(messages[i], messages[i].text)])

\* thread-store.ts:359-368
ExtractFirstSentence(text) ==
  LET periodSpace   == IndexOf(text, <<".", " ">>)
      periodNewline == IndexOf(text, <<".", "\n">>)
      end0 == Len(text)
      end1 == IF periodSpace >= 0 /\ periodSpace < end0 THEN periodSpace + 1 ELSE end0
      end2 == IF periodNewline >= 0 /\ periodNewline < end1 THEN periodNewline + 1 ELSE end1
  IN Slice(text, 0, end2)

\* a wrapper length that leaves the fence out
WrapperLen_NoFence == Len(ContextOpen) + Len(ContextClose)

\* thread-store.ts:328-329
WrapperLen == Len(ContextOpen) + Len(ContextClose) + Len(fence)

\* a loop that drops the newest summarized message
RECURSIVE DropOldest_DropsNewest(_, _, _)
DropOldest_DropsNewest(summarized, tailRender, budgetChars) ==
  LET body == Join(summarized) \o tailRender
  IN IF Len(body) + WrapperLen > budgetChars /\ Len(summarized) > 0
       THEN DropOldest_DropsNewest(SubSeq(summarized, 1, Len(summarized) - 1),
                                   tailRender, budgetChars)
       ELSE body

\* thread-store.ts:325-336: the while loop; summarized and olderMessages are
\* shifted together, so one sequence stands for both
RECURSIVE DropOldest(_, _, _)
DropOldest(summarized, tailRender, budgetChars) ==
  LET body == Join(summarized) \o tailRender
  IN IF Len(body) + WrapperLen > budgetChars /\ Len(summarized) > 0
       THEN DropOldest(Tail(summarized), tailRender, budgetChars)
       ELSE body

\* a formatter that cuts its output at the budget
FormatThreadContext_CutsAtBudget(file, budgetChars) ==
  Slice(ContextOpen \o RenderMessages(file.msgs) \o ContextClose \o fence, 0, budgetChars)

\* thread-store.ts:289-339
FormatThreadContext(file, budgetChars) ==
  LET messages   == file.msgs
      fullOutput == ContextOpen \o RenderMessages(messages) \o ContextClose \o fence
      tailStart  == IF Len(messages) - VERBATIM_TAIL_COUNT > 0
                      THEN Len(messages) - VERBATIM_TAIL_COUNT ELSE 0
      olderMessages == SubSeq(messages, 1, tailStart)
      tailMessages  == SubSeq(messages, tailStart + 1, Len(messages))
      tailRender    == RenderMessages(tailMessages)
      summarized    == [i \in 1..Len(olderMessages) |->
                          RenderSingleMessage(olderMessages[i],
                                              ExtractFirstSentence(olderMessages[i].text))]
  IN IF Len(messages) = 0 THEN ContextOpen \o ContextClose \o fence
     ELSE IF Len(fullOutput) <= budgetChars THEN fullOutput
     ELSE ContextOpen \o DropOldest(summarized, tailRender, budgetChars)
            \o ContextClose \o fence

\* ---- calls of the pure functions
\* no processor runs while a function is examined on its own
InitPure ==
  /\ pc = [w \in WorkerIds |-> "off"]
  /\ InitState
  /\ NoThreadedEvents
  /\ ret = NoRet

\* the call returns v
Returns(v) ==
  /\ ~ret.done
  /\ ret' = [done |-> TRUE, value |-> v]
  /\ UNCHANGED <<queueDirs, qpc, procVars, storeVars, qHist, agentVars, logVars,
                 event, said, args, lastPhase, stream, context>>

\* the transcripts formatted: n messages, the first k with one text and the
\* others with another
FormatTexts ==
  {<<"a">>,
   <<"a", "b", ".", " ", "c", "d", ".", "\n", "e">>,
   <<"a", "b", "c", "d", "e", "f", "g", "h", "i", "j", "k", "l">>}

Digits(n) ==
  LET d == <<"0", "1", "2", "3", "4", "5", "6", "7", "8", "9">>
  IN IF n < 10 THEN <<d[n + 1]>> ELSE <<d[(n \div 10) + 1], d[(n % 10) + 1]>>

FormatMessage(i, text) ==
  IF i % 2 = 1
    THEN [role |-> <<"u", "s", "e", "r">>, name |-> <<"a", "l">>,
          text |-> text, ts |-> Digits(i)]
    ELSE [role |-> <<"a", "s", "s", "i", "s", "t", "a", "n", "t">>,
          name |-> <<"p", "a", "i">>, text |-> text, ts |-> Digits(i)]

FormatFile(n, k, t1, t2) ==
  ThreadJson(n, [i \in 1..n |-> FormatMessage(i, IF i <= k THEN t1 ELSE t2)])

FormatFiles ==
  {FormatFile(n, k, t1, t2) :
     n \in 0..MaxFormatMsgs, k \in 0..MaxFormatMsgs, t1 \in FormatTexts, t2 \in FormatTexts}

\* the budgets tried on a file: 0, the default, and the lengths at which
\* one more message fits, each with its neighbours
SuffixLens(file) ==
  LET n == Len(file.msgs)
  IN {Len(ContextOpen \o RenderMessages(SubSeq(file.msgs, k, n)) \o ContextClose \o fence) :
        k \in 1..(n + 1)}

FormatBudgets(file) ==
  {0, DEFAULT_BUDGET_CHARS}
    \cup {l + d : l \in SuffixLens(file), d \in (0 - MaxSlack)..MaxSlack}

InitFormat ==
  /\ InitPure
  /\ \E file \in FormatFiles : \E budgetChars \in FormatBudgets(file) :
       args = [fn |-> "formatThreadContext", file |-> file, budgetChars |-> budgetChars]

FormatThreadContext_Call ==
  /\ args.fn = "formatThreadContext"
  /\ Returns(FormatThreadContext(args.file, args.budgetChars))

SpecFormat == InitFormat /\ [][FormatThreadContext_Call]_vars

\* ---- truncateAtNaturalBoundary, thread-store.ts:382-404
\* how far before the limit a boundary may lie (thread-store.ts:392, 398)
BOUNDARY_REACH == 100

\* a truncation that looks for a boundary in texts that fit as well
TruncateAtNaturalBoundary_AlwaysCuts(text, maxChars) ==
  LET candidate     == Slice(text, 0, maxChars)
      lastParagraph == LastIndexOf(candidate, <<"\n", "\n">>)
      lastSentence  == LastIndexOf(candidate, <<".", " ">>)
  IN IF lastParagraph >= 0 /\ lastParagraph >= maxChars - BOUNDARY_REACH
       THEN Slice(candidate, 0, lastParagraph)
     ELSE IF lastSentence >= 0 /\ lastSentence >= maxChars - BOUNDARY_REACH
       THEN Slice(candidate, 0, lastSentence + 1)
     ELSE candidate

TruncateAtNaturalBoundary(text, maxChars) ==
  IF Len(text) <= maxChars THEN text
  ELSE LET candidate     == Slice(text, 0, maxChars)
           lastParagraph == LastIndexOf(candidate, <<"\n", "\n">>)
           lastSentence  == LastIndexOf(candidate, <<".", " ">>)
       IN IF lastParagraph >= 0 /\ lastParagraph >= maxChars - BOUNDARY_REACH
            THEN Slice(candidate, 0, lastParagraph)
          ELSE IF lastSentence >= 0 /\ lastSentence >= maxChars - BOUNDARY_REACH
            THEN Slice(candidate, 0, lastSentence + 1)
          ELSE candidate

\* the texts truncated: three runs of letters with a paragraph break, a
\* sentence end or nothing between them; the middle run is short, or about
\* as long as the reach
Separators == {<<>>, <<"\n", "\n">>, <<".", " ">>}

RunLens == (0..1) \cup ((MaxRun - 3)..MaxRun)

TruncateTexts ==
  {Repeat("a", i) \o sep1 \o Repeat("b", j) \o sep2 \o Repeat("c", k) :
     i \in 0..1, sep1 \in Separators, j \in RunLens, sep2 \in Separators, k \in 0..1}

InitTruncate ==
  /\ InitPure
  /\ \E text \in TruncateTexts : \E maxChars \in 0..(Len(text) + 1) :
       args = [fn |-> "truncateAtNaturalBoundary", text |-> text, maxChars |-> maxChars]

TruncateAtNaturalBoundary_Call ==
  /\ args.fn = "truncateAtNaturalBoundary"
  /\ Returns(TruncateAtNaturalBoundary(args.text, args.maxChars))

SpecTruncate == InitTruncate /\ [][TruncateAtNaturalBoundary_Call]_vars

\* ---- formatForSlack, claude-invoke.ts:43-60
\* the code unit 0x1B
ESC == "ESC"

\* the code units of the model that lie in the classes of the regular
\* expression of claude-invoke.ts:45: [@-Z\\-_], [0-?], [ -/] and [@-~]
EscSingleUnits == {"M", "_"}

ParameterUnits == {"0", "3", ";"}

IntermediateUnits == {" ", "/"}

FinalUnits == {"M", "_", "[", "a", "m"}

\* how many units from the 1-based position i on lie in the class
RECURSIVE RunLength(_, _, _)
RunLength(s, i, class) ==
  IF i <= Len(s) /\ s[i] \in class THEN 1 + RunLength(s, i + 1, class) ELSE 0

\* length of the match of the expression at position i, 0 if there is none;
\* the three classes after "[" are disjoint, so the longest runs decide
MatchLength(s, i) ==
  IF s[i] # ESC \/ i + 1 > Len(s) THEN 0
  ELSE IF s[i + 1] \in EscSingleUnits THEN 2
  ELSE IF s[i + 1] # "[" THEN 0
  ELSE LET p == RunLength(s, i + 2, ParameterUnits)
           q == RunLength(s, i + 2 + p, IntermediateUnits)
           f == i + 2 + p + q
       IN IF f <= Len(s) /\ s[f] \in FinalUnits THEN 3 + p + q ELSE 0

\* position j lies in a match: a match starts with ESC and holds no other
\* ESC, so every ESC at which the expression matches starts a match
InMatch(s, j) ==
  \E i \in 1..j : MatchLength(s, i) > 0 /\ j < i + MatchLength(s, i)

\* text.replace(/.../g, ""): the units outside the matches, in order
StripAnsi(text) ==
  LET indexed == [j \in 1..Len(text) |-> <<j, text[j]>>]
      kept    == SelectSeq(indexed, LAMBDA p : ~InMatch(text, p[1]))
  IN [k \in 1..Len(kept) |-> kept[k][2]]

\* s.substring(0, end): a negative end counts as 0
Substring0(s, end) == IF end <= 0 THEN <<>> ELSE Slice(s, 0, end)

\* claude-invoke.ts:56
TRUNCATION_RESERVE == 100

TruncatedSuffix ==
  <<"\n", "\n", ".", ".", ".", " ", "(", "o", "u", "t", "p", "u", "t", " ",
    "t", "r", "u", "n", "c", "a", "t", "e", "d", ")">>

\* claude-invoke.ts:51-60
FormatForSlack(text, maxLength) ==
  LET formatted == StripAnsi(text)
  IN IF Len(formatted) > maxLength
       THEN Substring0(formatted, maxLength - TRUNCATION_RESERVE) \o TruncatedSuffix
       ELSE formatted

\* what the agent writes to stdout: letters, with escape sequences, or
\* pieces of them, in front and in the middle
AnsiSamples ==
  {<<>>,
   <<ESC, "[", "3", ";", "0", "m">>,
   <<ESC, "M">>,
   <<ESC, "[", "3", " ", "/", "a">>,
   <<ESC, "[", "3", "\n">>,
   <<ESC>>}

StdoutLens == {0, 1, 23, 24, 25, 99, 100, 101, MaxStdout}

Stdouts ==
  {pre \o Repeat("a", n) \o mid \o Repeat("m", k) :
     pre \in AnsiSamples, n \in StdoutLens, mid \in AnsiSamples, k \in 0..1}

InitSlackFormat ==
  /\ InitPure
  /\ \E text \in Stdouts : \E maxLength \in {0, 1, 23, 24, 25, 99, 100, 101, Len(text) - 1, Len(text), MaxStdout} :
       /\ maxLength >= 0
       /\ args = [fn |-> "formatForSlack", text |-> text, maxLength |-> maxLength]

FormatForSlack_Call ==
  /\ args.fn = "formatForSlack"
  /\ Returns(FormatForSlack(args.text, args.maxLength))

SpecSlackFormat == InitSlackFormat /\ [][FormatForSlack_Call]_vars

\* ========================================================= queue processor
Goto(w, l) == pc' = [pc EXCEPT ![w] = l]

\* processor.ts:272-291: the for loop over jsonFiles is over (finished, or
\* left by an exception that the loop's catch logs); count the cycle
AfterLoop(w) ==
  /\ jobFiles' = [jobFiles EXCEPT ![w] = {}]
  /\ IF pollCycleCount[w] + 1 >= CleanupIntervalCycles
       THEN /\ pollCycleCount' = [pollCycleCount EXCEPT ![w] = 0]
            /\ Goto(w, "cleanup")
       ELSE /\ pollCycleCount' = [pollCycleCount EXCEPT ![w] = pollCycleCount[w] + 1]
            /\ Goto(w, "sleep")

\* the catch block of processJob is entered with this error
Throw(w, msg) ==
  /\ errorMsg' = [errorMsg EXCEPT ![w] = msg]
  /\ Goto(w, "fail_open")

\* a startup that enters the main loop without the recovery sweep
StartQueueProcessor_NoRecovery(w) ==
  /\ pc[w] = "start"
  /\ Goto(w, "poll")
  /\ UNCHANGED <<queueDirs, qpc, jobFiles, jobFile, parsedJob, errorMsg,
                 pollCycleCount, storeVars, histVars>>

\* startQueueProcessor, processor.ts:237-248: ensureQueueDirs, WebClient
StartQueueProcessor(w) ==
  /\ pc[w] = "start"
  /\ Goto(w, "recover")
  /\ UNCHANGED <<queueDirs, qpc, jobFiles, jobFile, parsedJob, errorMsg,
                 pollCycleCount, storeVars, histVars>>

\* recoverStuckJobs, processor.ts:205-206
RecoverStuckJobs_Readdir(w) ==
  /\ pc[w] = "recover"
  /\ jobFiles' = [jobFiles EXCEPT ![w] = Listing(processing)]
  /\ Goto(w, "recover_loop")
  /\ UNCHANGED <<queueDirs, qpc, jobFile, parsedJob, errorMsg,
                 pollCycleCount, storeVars, histVars>>

\* a recovery that also discards the dead-letter record of the file it requeues
RecoverStuckJobs_Rename_DropsFailed(w) ==
  /\ pc[w] = "recover_loop"
  /\ \E f \in jobFiles[w] :
       IF Exists(processing, f)
         THEN /\ pending' = [pending EXCEPT ![f] = processing[f]]
              /\ processing' = [processing EXCEPT ![f] = NoFile]
              /\ failed' = [failed EXCEPT ![f] = NoFile]
              /\ jobFiles' = [jobFiles EXCEPT ![w] = jobFiles[w] \ {f}]
              /\ requeued' = [requeued EXCEPT ![f] = requeued[f] + 1]
              /\ UNCHANGED pc
         ELSE /\ jobFiles' = [jobFiles EXCEPT ![w] = {}]
              /\ Goto(w, "poll")
              /\ UNCHANGED <<pending, processing, failed, requeued>>
  /\ UNCHANGED <<tmpdir, completed, qpc, jobFile, parsedJob,
                 errorMsg, pollCycleCount, storeVars, qHist, sideVars, agentVars,
                 posts, claimed, skipped>>

\* recoverStuckJobs, processor.ts:208-220: one rename of the for loop; a
\* failing rename ends the recovery in its catch
RecoverStuckJobs_Rename(w) ==
  /\ pc[w] = "recover_loop"
  /\ \E f \in jobFiles[w] :
       IF Exists(processing, f)
         THEN /\ pending' = [pending EXCEPT ![f] = processing[f]]
              /\ processing' = [processing EXCEPT ![f] = NoFile]
              /\ jobFiles' = [jobFiles EXCEPT ![w] = jobFiles[w] \ {f}]
              /\ requeued' = [requeued EXCEPT ![f] = requeued[f] + 1]
              /\ UNCHANGED pc
         ELSE /\ jobFiles' = [jobFiles EXCEPT ![w] = {}]
              /\ Goto(w, "poll")
              /\ UNCHANGED <<pending, processing, requeued>>
  /\ UNCHANGED <<tmpdir, completed, failed, qpc, jobFile, parsedJob,
                 errorMsg, pollCycleCount, storeVars, qHist, sideVars, agentVars,
                 posts, claimed, skipped>>

RecoverStuckJobs_Done(w) ==
  /\ pc[w] = "recover_loop"
  /\ jobFiles[w] = {}
  /\ Goto(w, "poll")
  /\ UNCHANGED <<queueDirs, qpc, jobFiles, jobFile, parsedJob, errorMsg,
                 pollCycleCount, storeVars, histVars>>

\* main loop, processor.ts:259-260: readdir(paths.pending)
Poll_Readdir(w) ==
  /\ pc[w] = "poll"
  /\ jobFiles' = [jobFiles EXCEPT ![w] = Listing(pending)]
  /\ firstPoll' = FALSE
  /\ Goto(w, "loop")
  /\ UNCHANGED <<queueDirs, qpc, jobFile, parsedJob, errorMsg,
                 pollCycleCount, storeVars, shape, crashes, sideVars, atStartup,
                 everClaimed, owed, agentVars, logVars>>

\* a claim that ignores the error of the rename
ProcessJob_Claim_IgnoresError(w) ==
  /\ pc[w] = "loop"
  /\ \E f \in jobFiles[w] :
       /\ jobFiles' = [jobFiles EXCEPT ![w] = jobFiles[w] \ {f}]
       /\ jobFile' = [jobFile EXCEPT ![w] = f]
       /\ Goto(w, "read")
       /\ IF Exists(pending, f)
            THEN /\ processing' = [processing EXCEPT ![f] = pending[f]]
                 /\ pending' = [pending EXCEPT ![f] = NoFile]
                 /\ everClaimed' = everClaimed \cup {f}
                 /\ claimed' = [claimed EXCEPT ![f] = claimed[f] + 1]
            ELSE UNCHANGED <<pending, processing, everClaimed, claimed>>
  /\ UNCHANGED <<tmpdir, completed, failed, qpc, parsedJob, errorMsg,
                 pollCycleCount, storeVars, shape, crashes, sideVars, atStartup, firstPoll, owed,
                 agentVars, posts, requeued, skipped>>

\* a main loop that may call processJob without awaiting it: the call runs
\* on (as v) while the loop goes on to the next file
ProcessJob_Claim_NoAwait(w) ==
  /\ pc[w] = "loop"
  /\ \E f \in jobFiles[w] : \E v \in WorkerIds :
       /\ pc[v] = "off" \/ v = w
       /\ Exists(pending, f)
       /\ jobFiles' = [jobFiles EXCEPT ![w] = jobFiles[w] \ {f}]
       /\ processing' = [processing EXCEPT ![f] = pending[f]]
       /\ pending' = [pending EXCEPT ![f] = NoFile]
       /\ jobFile' = [jobFile EXCEPT ![v] = f]
       /\ everClaimed' = everClaimed \cup {f}
       /\ claimed' = [claimed EXCEPT ![f] = claimed[f] + 1]
       /\ Goto(v, "read")
  /\ UNCHANGED <<tmpdir, completed, failed, qpc, parsedJob, errorMsg,
                 pollCycleCount, storeVars, shape, crashes, sideVars, atStartup, firstPoll, owed,
                 agentVars, posts, requeued, skipped>>

\* processJob, processor.ts:45-53: the claim; the listing order is the OS's
ProcessJob_Claim(w) ==
  /\ pc[w] = "loop"
  /\ \E f \in jobFiles[w] :
       /\ jobFiles' = [jobFiles EXCEPT ![w] = jobFiles[w] \ {f}]
       /\ IF Exists(pending, f)
            THEN /\ processing' = [processing EXCEPT ![f] = pending[f]]
                 /\ pending' = [pending EXCEPT ![f] = NoFile]
                 /\ jobFile' = [jobFile EXCEPT ![w] = f]
                 /\ everClaimed' = everClaimed \cup {f}
                 /\ claimed' = [claimed EXCEPT ![f] = claimed[f] + 1]
                 /\ Goto(w, "read")
                 /\ UNCHANGED skipped
            ELSE /\ skipped' = skipped \cup {<<w, f>>}
                 /\ UNCHANGED <<pending, processing, jobFile, everClaimed, claimed, pc>>
  /\ UNCHANGED <<tmpdir, completed, failed, qpc, parsedJob, errorMsg,
                 pollCycleCount, storeVars, shape, crashes, sideVars, atStartup, firstPoll, owed,
                 agentVars, posts, requeued>>

\* processor.ts:262-291: no file left in jsonFiles
Loop_Done(w) ==
  /\ pc[w] = "loop"
  /\ jobFiles[w] = {}
  /\ AfterLoop(w)
  /\ UNCHANGED <<queueDirs, qpc, jobFile, parsedJob, errorMsg,
                 storeVars, histVars>>


\* processJob, processor.ts:55-60: readFile and JSON.parse, outside the try
ParseJob(f) == processing[f]

Parseable(c) == c.kind = "json"

\* processor.ts:60
IsSimpleNotification(c) == c.text /\ ~c.prompt

\* ---- detectPhase, claude-invoke.ts:28-38 and 65-72
UpperCase ==
  <<"A", "B", "C", "D", "E", "F", "G", "H", "I", "J", "K", "L", "M",
    "N", "O", "P", "Q", "R", "S", "T", "U", "V", "W", "X", "Y", "Z">>

LowerCase ==
  <<"a", "b", "c", "d", "e", "f", "g", "h", "i", "j", "k", "l", "m",
    "n", "o", "p", "q", "r", "s", "t", "u", "v", "w", "x", "y", "z">>

\* the code unit c with its case folded, as the i flag compares
FoldCase(c) ==
  IF \E k \in 1..Len(UpperCase) : UpperCase[k] = c
    THEN LowerCase[CHOOSE k \in 1..Len(UpperCase) : UpperCase[k] = c]
    ELSE c

Folded(s) == [k \in 1..Len(s) |-> FoldCase(s[k])]

\* the patterns in the order of the array, each written in lower case
PHASE_PATTERNS ==
  <<[pattern |-> <<"o", "b", "s", "e", "r", "v", "e">>, phase |-> "OBSERVE"],
   [pattern |-> <<"t", "h", "i", "n", "k">>, phase |-> "THINK"],
   [pattern |-> <<"e", "x", "e", "c", "u", "t", "e">>, phase |-> "EXECUTE"],
   [pattern |-> <<"v", "e", "r", "i", "f", "y">>, phase |-> "VERIFY"],
   [pattern |-> <<"c", "o", "m", "p", "l", "e", "t", "e">>, phase |-> "COMPLETE"],
   [pattern |-> <<"p", "l", "a", "n", "n", "i", "n", "g">>, phase |-> "Planning"],
   [pattern |-> <<"i", "m", "p", "l", "e", "m", "e", "n", "t", "i", "n", "g">>, phase |-> "Implementing"],
   [pattern |-> <<"t", "e", "s", "t", "i", "n", "g">>, phase |-> "Testing"],
   [pattern |-> <<"r", "e", "v", "i", "e", "w", "i", "n", "g">>, phase |-> "Reviewing"]>>

\* pattern.test(text) for a pattern with the i flag
Test(pattern, text) ==
  LET s == Folded(text)
  IN \E i \in 0..(Len(s) - Len(pattern)) : OccursAt(s, pattern, i)

\* a detection that returns the last matching pattern of the array
DetectPhase_LastMatch(text) ==
  LET hits == {k \in 1..Len(PHASE_PATTERNS) : Test(PHASE_PATTERNS[k].pattern, text)}
  IN IF hits = {} THEN NoPhase
     ELSE PHASE_PATTERNS[CHOOSE k \in hits : \A j \in hits : j <= k].phase

\* detectPhase: the first pattern of the array that matches, or null
DetectPhase(text) ==
  LET hits == {k \in 1..Len(PHASE_PATTERNS) : Test(PHASE_PATTERNS[k].pattern, text)}
  IN IF hits = {} THEN NoPhase
     ELSE PHASE_PATTERNS[CHOOSE k \in hits : \A j \in hits : k <= j].phase

\* chunks of stdout: a phase name, one in lower case, no phase name, and a
\* chunk naming THINK before OBSERVE
Chunks ==
  {<<"O", "B", "S", "E", "R", "V", "E">>,
   <<"t", "h", "i", "n", "k">>,
   <<"o", "k">>,
   <<"T", "h", "i", "n", "k", "i", "n", "g", ",", " ", "o", "b", "s", "e",
  "r", "v", "e">>}

\* a validation that does not look at user
MissingRequiredFields_IgnoresUser(c) ==
  ~c.id \/ ~c.channel \/ c.thread_ts = 0 \/ ~c.prompt

\* processor.ts:95
MissingRequiredFields(c) ==
  ~c.id \/ ~c.channel \/ c.thread_ts = 0 \/ ~c.user \/ ~c.prompt

\* processJob, processor.ts:55-127: from the read of the claimed file to the
\* next await (the Slack post of a notification, or the first read of the
\* agent's stdout).  spawn may throw; invokeClaudeNoTimeout turns that into
\* success: false (claude-invoke.ts:162-169).
ProcessJob_Read(w) ==
  /\ pc[w] = "read"
  /\ LET f == jobFile[w]
         c == ParseJob(f)
     IN IF ~Parseable(c)
          THEN \* readFile or JSON.parse throws: processJob rejects, and the
               \* catch of the main loop (processor.ts:272) ends the for loop
               /\ AfterLoop(w)
               /\ UNCHANGED <<parsedJob, errorMsg, owed, child, invoked>>
          ELSE /\ UNCHANGED <<jobFiles, pollCycleCount>>
               /\ IF IsSimpleNotification(c)
                    THEN /\ parsedJob' = [parsedJob EXCEPT ![w] = c]
                         /\ UNCHANGED <<owed, child, invoked>>
                         /\ IF ~c.channel
                              THEN Throw(w, "Missing required field: channel")
                              ELSE /\ Goto(w, "simple_post")
                                   /\ UNCHANGED errorMsg
                    ELSE IF MissingRequiredFields(c)
                           THEN /\ parsedJob' = [parsedJob EXCEPT ![w] = c]
                                /\ UNCHANGED <<owed, child, invoked>>
                                /\ Throw(w, "Missing required fields")
                           ELSE \* job.started_at = Date.now(); the agent is invoked
                                /\ parsedJob' = [parsedJob EXCEPT ![w] =
                                                   [c EXCEPT !.started_at = DateNow]]
                                /\ owed' = owed \ {f}
                                /\ invoked' = [invoked EXCEPT ![f] = invoked[f] + 1]
                                /\ \E spawned \in BOOLEAN :
                                     IF spawned
                                       THEN /\ child' = [child EXCEPT ![w] = Running]
                                            /\ Goto(w, "agent")
                                            /\ UNCHANGED errorMsg
                                       ELSE /\ Throw(w, "spawn failed")
                                            /\ UNCHANGED child
  \* let lastPhase = null (claude-invoke.ts:112), a local of the invocation
  /\ lastPhase' = [lastPhase EXCEPT ![w] = NoPhase]
  /\ UNCHANGED <<queueDirs, qpc, jobFile, storeVars, shape, crashes, event, said,
                 args, ret, stream, context, atStartup, firstPoll, everClaimed, agentOut,
                 logVars>>

\* the child closes its stdout
Child_CloseStdout(w) ==
  /\ child[w].state = "running"
  /\ child' = [child EXCEPT ![w].state = "closed"]
  /\ UNCHANGED <<queueDirs, qpc, procVars, storeVars, qHist, sideVars, agentOut, invoked, logVars>>

\* the child exits with an exit code, its stderr complete
Child_Exit(w) ==
  /\ child[w].state = "closed"
  /\ \E out \in AgentOutcomes : child' = [child EXCEPT ![w] = out]
  /\ UNCHANGED <<queueDirs, qpc, procVars, storeVars, qHist, sideVars, agentOut, invoked, logVars>>

\* the number of chunks read from all agents so far
ChunksRead == Cardinality({<<f, i>> \in JobFileNames \X (1..MaxChunks) : i <= Len(stream[f])})

\* a progress callback whose rejection is not caught: the job fails
Agent_Chunk_Throws(w) ==
  /\ pc[w] = "agent"
  /\ child[w].state = "running"
  /\ ChunksRead < MaxChunks
  /\ \E text \in Chunks :
       LET f == jobFile[w]
           phase == DetectPhase(text)
           report == phase # NoPhase /\ phase # lastPhase[w]
       IN /\ stream' = [stream EXCEPT ![f] =
                          Append(@, [text |-> text, progress |-> IF report THEN phase ELSE NoPhase])]
          /\ lastPhase' = [lastPhase EXCEPT ![w] = IF report THEN phase ELSE @]
          /\ \E posted \in BOOLEAN :
               IF report /\ ~posted
                 THEN Throw(w, "slack") /\ UNCHANGED posts
                 ELSE /\ posts' = [posts EXCEPT ![f] =
                                     IF report THEN Append(@, Post("thread", "progress", phase)) ELSE @]
                      /\ UNCHANGED <<pc, errorMsg>>
  /\ UNCHANGED <<queueDirs, qpc, jobFiles, jobFile, parsedJob, pollCycleCount,
                 storeVars, qHist, agentVars, claimed, requeued, skipped,
                 event, said, args, ret, context>>

\* the stream loop of invokeClaudeNoTimeout, claude-invoke.ts:119-139, for one
\* chunk: reader.read() returns what the child wrote, the phase is detected
\* and, if it is not the last one reported, on_progress is called; the
\* callback (processor.ts:104-116) posts "[phase]" to the thread and swallows
\* a rejected post
Agent_Chunk(w) ==
  /\ pc[w] = "agent"
  /\ child[w].state = "running"
  /\ ChunksRead < MaxChunks
  /\ \E text \in Chunks :
       LET f == jobFile[w]
           phase == DetectPhase(text)
           report == phase # NoPhase /\ phase # lastPhase[w]
       IN /\ stream' = [stream EXCEPT ![f] =
                          Append(@, [text |-> text, progress |-> IF report THEN phase ELSE NoPhase])]
          /\ lastPhase' = [lastPhase EXCEPT ![w] = IF report THEN phase ELSE @]
          /\ \E posted \in BOOLEAN :
               posts' = [posts EXCEPT ![f] =
                           IF report /\ posted
                             THEN Append(@, Post("thread", "progress", phase)) ELSE @]
  /\ UNCHANGED <<queueDirs, qpc, procVars, storeVars, qHist, agentVars, claimed,
                 requeued, skipped, event, said, args, ret, context>>

\* a reader that gives up on the child after a deadline and kills it
Agent_Eof_Timeout(w) ==
  /\ pc[w] = "agent"
  /\ child' = [child EXCEPT ![w] = [state |-> "exited", code |-> 1, stderr |-> ""]]
  /\ Goto(w, "agent_wait")
  /\ UNCHANGED <<queueDirs, qpc, jobFiles, jobFile, parsedJob, errorMsg,
                 pollCycleCount, storeVars, qHist, sideVars, agentOut, invoked, logVars>>

\* invokeClaudeNoTimeout, claude-invoke.ts:119-121: reader.read() reports
\* done once the child has closed stdout; there is no deadline
Agent_Eof(w) ==
  /\ pc[w] = "agent"
  /\ child[w].state \in {"closed", "exited"}
  /\ Goto(w, "agent_wait")
  /\ UNCHANGED <<queueDirs, qpc, jobFiles, jobFile, parsedJob, errorMsg,
                 pollCycleCount, storeVars, histVars>>

\* an error text that leaves out what the child wrote to stderr
ExitError_IgnoresStderr(c) == "Claude CLI exited with code 1"

\* claude-invoke.ts:148-155
ExitError(c) ==
  IF c.stderr # "" THEN c.stderr ELSE "Claude CLI exited with code 1"

\* invokeClaudeNoTimeout returns, claude-invoke.ts:141-161 and
\* processor.ts:129,162-165: proc.exited has resolved and stderr is drained
AgentExit(w) ==
  /\ pc[w] = "agent_wait"
  /\ child[w].state = "exited"
  /\ IF child[w].code = 0
       THEN Goto(w, "post_result") /\ UNCHANGED errorMsg
       ELSE Throw(w, ExitError(child[w]))
  /\ agentOut' = [agentOut EXCEPT ![jobFile[w]] = child[w]]
  /\ child' = [child EXCEPT ![w] = NoChild]
  /\ UNCHANGED <<queueDirs, qpc, jobFiles, jobFile, parsedJob,
                 pollCycleCount, storeVars, qHist, sideVars, invoked, logVars>>

\* a post of the result that is best effort, like the thread store append
PostResult_Swallows(w) ==
  /\ pc[w] = "post_result"
  /\ \E posted \in BOOLEAN :
       IF posted
         THEN posts' = [posts EXCEPT ![jobFile[w]] =
                          Append(@, Post("thread", "result", "output"))]
         ELSE UNCHANGED posts
  /\ Goto(w, "append")
  /\ UNCHANGED <<queueDirs, qpc, jobFiles, jobFile, parsedJob, errorMsg,
                 pollCycleCount, storeVars, qHist, sideVars, agentVars, claimed, requeued, skipped>>

\* processor.ts:131-135: post result.output; a rejected post is caught at 167
PostResult(w) ==
  /\ pc[w] = "post_result"
  /\ \E posted \in BOOLEAN :
       IF posted
         THEN /\ posts' = [posts EXCEPT ![jobFile[w]] =
                             Append(@, Post("thread", "result", "output"))]
              /\ Goto(w, "append")
              /\ UNCHANGED errorMsg
         ELSE /\ Throw(w, "slack")
              /\ UNCHANGED posts
  /\ UNCHANGED <<queueDirs, qpc, jobFiles, jobFile, parsedJob,
                 pollCycleCount, storeVars, qHist, sideVars, agentVars, claimed, requeued, skipped>>

\* an append whose failure fails the job
AppendAssistant_Throws(w) ==
  /\ pc[w] = "append"
  /\ \E stored \in BOOLEAN :
       IF stored
         THEN LET file == AppendedFile(LoadThreadFile(QueueThread), AssistantMsg(clock + 1))
              IN /\ threadFile' = [threadFile EXCEPT ![QueueThread] = file]
                 /\ threadOld' = threadOld \ {<<QueueThread, "file">>}
                 /\ clock' = clock + 1
                 /\ saved' = saved \cup {file}
                 /\ Goto(w, "archive_open")
                 /\ UNCHANGED errorMsg
         ELSE /\ Throw(w, "store")
              /\ UNCHANGED <<threadFile, threadOld, clock, saved>>
  /\ UNCHANGED <<queueDirs, qpc, jobFiles, jobFile, parsedJob,
                 pollCycleCount, threadTmp, lockVars, opVars, histVars>>

\* processor.ts:137-152: appendMessage for the assistant reply, best effort.
\* The processor is the only user of the thread store in the queue
\* specifications, so the locked load-modify-save runs without interleaving.
AppendAssistant(w) ==
  /\ pc[w] = "append"
  /\ \E stored \in BOOLEAN :
       IF stored
         THEN LET file == AppendedFile(LoadThreadFile(QueueThread), AssistantMsg(clock + 1))
              IN /\ threadFile' = [threadFile EXCEPT ![QueueThread] = file]
                 /\ threadOld' = threadOld \ {<<QueueThread, "file">>}
                 /\ clock' = clock + 1
                 /\ saved' = saved \cup {file}
         ELSE UNCHANGED <<threadFile, threadOld, clock, saved>>
  /\ Goto(w, "archive_open")
  /\ UNCHANGED <<queueDirs, qpc, jobFiles, jobFile, parsedJob, errorMsg,
                 pollCycleCount, threadTmp, lockVars, opVars, histVars>>

\* processor.ts:155-157: job.completed_at, writeFile(processingPath) opens
Archive_Open(w) ==
  /\ pc[w] = "archive_open"
  /\ parsedJob' = [parsedJob EXCEPT ![w] = [parsedJob[w] EXCEPT !.completed_at = DateNow]]
  /\ processing' = [processing EXCEPT ![jobFile[w]] = Partial]
  /\ Goto(w, "archive_write")
  /\ UNCHANGED <<tmpdir, pending, completed, failed, qpc, jobFiles, jobFile,
                 errorMsg, pollCycleCount, storeVars, histVars>>

\* processor.ts:157: the data lands
Archive_Write(w) ==
  /\ pc[w] = "archive_write"
  /\ processing' = [processing EXCEPT ![jobFile[w]] = parsedJob[w]]
  /\ Goto(w, "archive_rename")
  /\ UNCHANGED <<tmpdir, pending, completed, failed, qpc, jobFiles, jobFile,
                 parsedJob, errorMsg, pollCycleCount, storeVars, histVars>>

\* processor.ts:158: rename(processingPath, completedPath)
Archive_Rename(w) ==
  /\ pc[w] = "archive_rename"
  /\ LET f == jobFile[w]
     IN IF Exists(processing, f)
          THEN /\ completed' = [completed EXCEPT ![f] = processing[f]]
               /\ processing' = [processing EXCEPT ![f] = NoFile]
               /\ Goto(w, "loop")
               /\ UNCHANGED errorMsg
          ELSE /\ Throw(w, "ENOENT")
               /\ UNCHANGED <<completed, processing>>
  /\ UNCHANGED <<tmpdir, pending, failed, qpc, jobFiles, jobFile, parsedJob,
                 pollCycleCount, storeVars, histVars>>

\* a notification posted as a reply in the job's thread
Simple_Post_InThread(w) ==
  /\ pc[w] = "simple_post"
  /\ \E posted \in BOOLEAN :
       IF posted
         THEN /\ posts' = [posts EXCEPT ![jobFile[w]] =
                             Append(@, Post("thread", "text", "text"))]
              /\ Goto(w, "simple_open")
              /\ UNCHANGED errorMsg
         ELSE /\ Throw(w, "slack")
              /\ UNCHANGED posts
  /\ UNCHANGED <<queueDirs, qpc, jobFiles, jobFile, parsedJob,
                 pollCycleCount, storeVars, qHist, sideVars, agentVars, claimed, requeued, skipped>>

\* processor.ts:71-74: the notification is posted to the channel
Simple_Post(w) ==
  /\ pc[w] = "simple_post"
  /\ \E posted \in BOOLEAN :
       IF posted
         THEN /\ posts' = [posts EXCEPT ![jobFile[w]] =
                             Append(@, Post("channel", "text", "text"))]
              /\ Goto(w, "simple_open")
              /\ UNCHANGED errorMsg
         ELSE /\ Throw(w, "slack")
              /\ UNCHANGED posts
  /\ UNCHANGED <<queueDirs, qpc, jobFiles, jobFile, parsedJob,
                 pollCycleCount, storeVars, qHist, sideVars, agentVars, claimed, requeued, skipped>>

\* processor.ts:77-84
CompletedNotification(c) ==
  [Blank EXCEPT !.kind = "json", !.id = TRUE, !.channel = c.channel,
                !.text = c.text, !.started_at = DateNow, !.completed_at = DateNow]

\* processor.ts:86-87: writeFile(completedPath) opens
Simple_Open(w) ==
  /\ pc[w] = "simple_open"
  /\ completed' = [completed EXCEPT ![jobFile[w]] = Partial]
  /\ Goto(w, "simple_write")
  /\ UNCHANGED <<tmpdir, pending, processing, failed, qpc, jobFiles, jobFile,
                 parsedJob, errorMsg, pollCycleCount, storeVars, histVars>>

Simple_Write(w) ==
  /\ pc[w] = "simple_write"
  /\ completed' = [completed EXCEPT ![jobFile[w]] = CompletedNotification(parsedJob[w])]
  /\ Goto(w, "simple_unlink")
  /\ UNCHANGED <<tmpdir, pending, processing, failed, qpc, jobFiles, jobFile,
                 parsedJob, errorMsg, pollCycleCount, storeVars, histVars>>

\* processor.ts:88: unlink(processingPath)
Simple_Unlink(w) ==
  /\ pc[w] = "simple_unlink"
  /\ LET f == jobFile[w]
     IN IF Exists(processing, f)
          THEN /\ processing' = [processing EXCEPT ![f] = NoFile]
               /\ Goto(w, "loop")
               /\ UNCHANGED errorMsg
          ELSE /\ Throw(w, "ENOENT")
               /\ UNCHANGED processing
  /\ UNCHANGED <<tmpdir, pending, completed, failed, qpc, jobFiles, jobFile,
                 parsedJob, pollCycleCount, storeVars, histVars>>

\* processor.ts:169-174
FailedJob(c, msg) == [c EXCEPT !.error = msg, !.failed_at = TRUE]

\* processor.ts:176-177: writeFile(failedPath) opens
Fail_Open(w) ==
  /\ pc[w] = "fail_open"
  /\ failed' = [failed EXCEPT ![jobFile[w]] = Partial]
  /\ Goto(w, "fail_write")
  /\ UNCHANGED <<tmpdir, pending, processing, completed, qpc, jobFiles,
                 jobFile, parsedJob, errorMsg, pollCycleCount, storeVars, histVars>>

Fail_Write(w) ==
  /\ pc[w] = "fail_write"
  /\ failed' = [failed EXCEPT ![jobFile[w]] = FailedJob(parsedJob[w], errorMsg[w])]
  /\ Goto(w, "fail_unlink")
  /\ UNCHANGED <<tmpdir, pending, processing, completed, qpc, jobFiles,
                 jobFile, parsedJob, errorMsg, pollCycleCount, storeVars, histVars>>

\* processor.ts:178-184: unlink(processingPath); a failing unlink rejects
\* processJob out of its catch block into the catch of the main loop
Fail_Unlink(w) ==
  /\ pc[w] = "fail_unlink"
  /\ LET f == jobFile[w]
     IN IF Exists(processing, f)
          THEN /\ processing' = [processing EXCEPT ![f] = NoFile]
               /\ IF parsedJob[w].channel /\ parsedJob[w].thread_ts # 0
                    THEN Goto(w, "fail_notify")
                    ELSE Goto(w, "loop")
               /\ UNCHANGED <<jobFiles, pollCycleCount>>
          ELSE /\ AfterLoop(w)
               /\ UNCHANGED processing
  /\ UNCHANGED <<tmpdir, pending, completed, failed, qpc, jobFile,
                 parsedJob, errorMsg, storeVars, histVars>>

\* processor.ts:184-194: the apology, "Sorry, ...: <errorMsg>", as a reply in
\* the thread; a rejected post is logged
Fail_Notify(w) ==
  /\ pc[w] = "fail_notify"
  /\ \E posted \in BOOLEAN :
       IF posted
         THEN posts' = [posts EXCEPT ![jobFile[w]] =
                          Append(@, Post("thread", "apology", errorMsg[w]))]
         ELSE UNCHANGED posts
  /\ Goto(w, "loop")
  /\ UNCHANGED <<queueDirs, qpc, jobFiles, jobFile, parsedJob, errorMsg,
                 pollCycleCount, storeVars, qHist, sideVars, agentVars, claimed, requeued, skipped>>

\* cleanupOldThreads(72), thread-store.ts:414-446, as the processor calls it
\* (processor.ts:278-288): every *.json of the thread directory whose mtime
\* is before the cutoff is unlinked and its lock entry deleted
CleanupOldThreads(w) ==
  /\ pc[w] = "cleanup"
  /\ threadFile' = [t \in Threads |->
                      IF <<t, "file">> \in threadOld THEN NoThread ELSE threadFile[t]]
  /\ threadTmp' = [t \in Threads |->
                     IF <<t, "tmp">> \in threadOld THEN NoThread ELSE threadTmp[t]]
  /\ threadLocks' = [t \in Threads |->
                       IF <<t, "file">> \in threadOld THEN "none" ELSE threadLocks[t]]
  /\ threadOld' = {}
  /\ Goto(w, "sleep")
  /\ UNCHANGED <<queueDirs, qpc, jobFiles, jobFile, parsedJob, errorMsg,
                 pollCycleCount, resolved, opVars, clock, saved, histVars>>

\* processor.ts:291: sleep(pollInterval)
Sleep(w) ==
  /\ pc[w] = "sleep"
  /\ Goto(w, "poll")
  /\ UNCHANGED <<queueDirs, qpc, jobFiles, jobFile, parsedJob, errorMsg,
                 pollCycleCount, storeVars, histVars>>

\* A thread file's mtime falls behind the 72 hour cutoff.
TimePasses(t) ==
  /\ threadFile[t].kind # "none"
  /\ <<t, "file">> \notin threadOld
  /\ threadOld' = threadOld \cup {<<t, "file">>}
  /\ UNCHANGED <<queueDirs, qpc, procVars, threadFile, threadTmp, lockVars, opVars,
                 clock, saved, histVars>>

\* The process is killed and restarted: memory is lost, the disk stays.
Crash ==
  /\ crashes < MaxCrashes
  /\ crashes' = crashes + 1
  /\ pc' = [w \in WorkerIds |-> IF pc[w] = "off" THEN "off" ELSE "start"]
  /\ jobFiles' = [w \in WorkerIds |-> {}]
  /\ jobFile' = [w \in WorkerIds |-> ""]
  /\ parsedJob' = [w \in WorkerIds |-> NoFile]
  /\ errorMsg' = [w \in WorkerIds |-> ""]
  /\ pollCycleCount' = [w \in WorkerIds |-> 0]
  /\ qpc' = [f \in JobFileNames |->
               IF qpc[f] \in {"writing", "written"} THEN "dead" ELSE qpc[f]]
  /\ threadLocks' = [t \in Threads |-> "none"]
  /\ resolved' = {}
  /\ atStartup' = Listing(processing)
  /\ firstPoll' = TRUE
  /\ owed' = owed \cup {f \in JobFileNames : Exists(processing, f) /\ shape[f] = "queued"}
  /\ child' = [w \in WorkerIds |-> NoChild]
  /\ lastPhase' = [w \in WorkerIds |-> NoPhase]
  /\ UNCHANGED <<queueDirs, storeDisk, opVars, clock, saved, shape, everClaimed,
                 agentOut, invoked, logVars, event, said, args, ret, stream, context>>

ProcessorStep(w) ==
  \/ StartQueueProcessor(w)
  \/ RecoverStuckJobs_Readdir(w)
  \/ RecoverStuckJobs_Rename(w)
  \/ RecoverStuckJobs_Done(w)
  \/ Poll_Readdir(w)
  \/ ProcessJob_Claim(w)
  \/ Loop_Done(w)
  \/ ProcessJob_Read(w)
  \/ Agent_Eof(w)
  \/ AgentExit(w)
  \/ PostResult(w)
  \/ AppendAssistant(w)
  \/ Archive_Open(w)
  \/ Archive_Write(w)
  \/ Archive_Rename(w)
  \/ Simple_Post(w)
  \/ Simple_Open(w)
  \/ Simple_Write(w)
  \/ Simple_Unlink(w)
  \/ Fail_Open(w)
  \/ Fail_Write(w)
  \/ Fail_Unlink(w)
  \/ Fail_Notify(w)
  \/ CleanupOldThreads(w)
  \/ Sleep(w)

NextQueue ==
  \/ \E f \in JobFileNames : QueueJob_Open(f)
  \/ \E f \in JobFileNames : QueueJob_Write(f)
  \/ \E f \in JobFileNames : QueueJob_Rename(f)
  \/ \E f \in DropFileNames : \E c \in DroppedShapes : ExternalDrop(f, c)
  \/ \E w \in WorkerIds : ProcessorStep(w)
  \/ \E w \in WorkerIds : Child_CloseStdout(w)
  \/ \E w \in WorkerIds : Child_Exit(w)
  \/ TimePasses(QueueThread)
  \/ Crash

SpecQueue == Init /\ [][NextQueue]_vars


\* a step of the main loop or of processJob
PollingStep(w) ==
  \/ Poll_Readdir(w)
  \/ ProcessJob_Claim(w)
  \/ Loop_Done(w)
  \/ ProcessJob_Read(w)
  \/ Agent_Eof(w)
  \/ AgentExit(w)
  \/ PostResult(w)
  \/ AppendAssistant(w)
  \/ Archive_Open(w)
  \/ Archive_Write(w)
  \/ Archive_Rename(w)
  \/ Simple_Post(w)
  \/ Simple_Open(w)
  \/ Simple_Write(w)
  \/ Simple_Unlink(w)
  \/ Fail_Open(w)
  \/ Fail_Write(w)
  \/ Fail_Unlink(w)
  \/ Fail_Notify(w)
  \/ CleanupOldThreads(w)
  \/ Sleep(w)

\* ================================================================= intake
\* queueMessage, handlers.ts:153-212, from the call of queueJob on.  qpc[f]
\* is the position of the handler whose job gets the file name f: "none",
\* "writing", "written", "done" (queueJob returned), then "returned",
\* "caught" (in the catch block), "apologized" or "escaped".

\* a message the handler hands to chat.postMessage
Said(f, kind) == [kind |-> kind, thread_ts |-> ReplyTs(event[f])]

\* buildThreadContext for a message in a thread (handlers.ts:90-128): the
\* whole body is in a try block. It returns the formatted context, or
\* undefined when the thread has at most one message, or load, seed, append
\* or format rejected and the catch block returned undefined.
ContextOutcomes == {"built", "undefined", "failed"}

\* a buildThreadContext whose catch block rethrows: queueMessage's catch
\* block is entered
BuildThreadContext_Returns_Rethrows(f) ==
  /\ qpc[f] = "none"
  /\ shape[f] = "none"
  /\ event[f].thread_ts # 0
  /\ context[f] = "none"
  /\ \E r \in ContextOutcomes :
       /\ context' = [context EXCEPT ![f] = r]
       /\ qpc' = [qpc EXCEPT ![f] = IF r = "failed" THEN "caught" ELSE @]
  /\ UNCHANGED <<queueDirs, procVars, storeVars, qHist, agentVars, logVars,
                 event, said, args, ret, lastPhase, stream>>

BuildThreadContext_Returns(f) ==
  /\ qpc[f] = "none"
  /\ shape[f] = "none"
  /\ event[f].thread_ts # 0
  /\ context[f] = "none"
  /\ \E r \in ContextOutcomes : context' = [context EXCEPT ![f] = r]
  /\ UNCHANGED <<queueDirs, qpc, procVars, storeVars, qHist, agentVars, logVars,
                 event, said, args, ret, lastPhase, stream>>

\* a filesystem call of queueJob rejects: mkdir before anything is written,
\* writeFile at its open or after it, or rename (claude-invoke.ts:225-245);
\* queueMessage's catch block is entered
QueueJob_Throws(f) ==
  /\ \/ qpc[f] = "none" /\ shape[f] = "none" /\ ContextAssembled(f)
     \/ qpc[f] \in {"writing", "written"}
  /\ qpc' = [qpc EXCEPT ![f] = "caught"]
  /\ shape' = [shape EXCEPT ![f] = "refused"]
  /\ UNCHANGED <<queueDirs, procVars, storeVars, crashes, sideVars, atStartup,
                 firstPoll, everClaimed, owed, agentVars, logVars>>

\* an acknowledgment sent while the job is still in the temp file
SendQueuedAck_BeforeRename(f) ==
  /\ qpc[f] = "written"
  /\ said[f] = <<>>
  /\ said' = [said EXCEPT ![f] = Append(@, Said(f, "ack"))]
  /\ UNCHANGED <<queueDirs, qpc, procVars, storeVars, qHist, agentVars, logVars,
                 event, args, ret, lastPhase, stream, context>>

\* sendQueuedAck, handlers.ts:28-43 and 198: the post succeeds or is
\* rejected; the rejection is logged
SendQueuedAck(f) ==
  /\ qpc[f] = "done"
  /\ \E posted \in BOOLEAN :
       said' = [said EXCEPT ![f] = IF posted THEN Append(@, Said(f, "ack")) ELSE @]
  /\ qpc' = [qpc EXCEPT ![f] = "returned"]
  /\ UNCHANGED <<queueDirs, procVars, storeVars, qHist, agentVars, logVars,
                 event, args, ret, lastPhase, stream, context>>

\* the catch block, handlers.ts:203-211: the apology is posted, or the post
\* rejects and the rejection leaves queueMessage
QueueMessage_Catch(f) ==
  /\ qpc[f] = "caught"
  /\ \E posted \in BOOLEAN :
       IF posted
         THEN /\ said' = [said EXCEPT ![f] = Append(@, Said(f, "apology"))]
              /\ qpc' = [qpc EXCEPT ![f] = "apologized"]
         ELSE /\ qpc' = [qpc EXCEPT ![f] = "escaped"]
              /\ UNCHANGED said
  /\ UNCHANGED <<queueDirs, procVars, storeVars, qHist, agentVars, logVars,
                 event, args, ret, lastPhase, stream, context>>

\* the events handled are top-level messages or replies in a thread; the
\* processor of the same process is in its main loop
InitHandlers ==
  /\ pc = [w \in WorkerIds |-> IF w = "w1" THEN "poll" ELSE "off"]
  /\ InitState
  /\ NoCall
  /\ event \in [JobFileNames -> Events]
  /\ said = [f \in JobFileNames |-> <<>>]

\* intake handlers and the processor in one process
NextHandlers ==
  \/ \E f \in JobFileNames : BuildThreadContext_Returns(f)
  \/ \E f \in JobFileNames : QueueJob_Open(f)
  \/ \E f \in JobFileNames : QueueJob_Write(f)
  \/ \E f \in JobFileNames : QueueJob_Rename(f)
  \/ \E f \in JobFileNames : QueueJob_Throws(f)
  \/ \E f \in JobFileNames : SendQueuedAck(f)
  \/ \E f \in JobFileNames : QueueMessage_Catch(f)
  \/ \E f \in DropFileNames : \E c \in DroppedShapes : ExternalDrop(f, c)
  \/ \E w \in WorkerIds : PollingStep(w)
  \/ \E w \in WorkerIds : Child_CloseStdout(w)
  \/ \E w \in WorkerIds : Child_Exit(w)

SpecHandlers == InitHandlers /\ [][NextHandlers]_vars

\* ---- validation of the claimed job, processor.ts:60 and 92-99
\* job files of any producer: every combination of the fields processJob
\* looks at, present or missing
ProducedJobs ==
  {[Blank EXCEPT !.kind = "json", !.id = i, !.channel = c, !.thread_ts = t,
                 !.user = u, !.prompt = p, !.text = x] :
     i \in BOOLEAN, c \in BOOLEAN, t \in {0, ReplyTs(DefaultEvent)},
     u \in BOOLEAN, p \in BOOLEAN, x \in BOOLEAN}

\* one processor in its main loop
InitValidation ==
  /\ pc = [w \in WorkerIds |-> IF w = "w1" THEN "poll" ELSE "off"]
  /\ InitState
  /\ NoThreadedEvents
  /\ NoCall

NextValidation ==
  \/ \E f \in JobFileNames : \E c \in ProducedJobs : ExternalDrop(f, c)
  \/ \E w \in WorkerIds : PollingStep(w)
  \/ \E w \in WorkerIds : Child_CloseStdout(w)
  \/ \E w \in WorkerIds : Child_Exit(w)

SpecValidation == InitValidation /\ [][NextValidation]_vars

\* ---- an agent that writes to stdout while it runs
\* one processor in its main loop; complete agent jobs appear in pending/
NextProgress ==
  \/ \E f \in DropFileNames : ExternalDrop(f, SlackJob)
  \/ \E w \in WorkerIds : Poll_Readdir(w)
  \/ \E w \in WorkerIds : ProcessJob_Claim(w)
  \/ \E w \in WorkerIds : Loop_Done(w)
  \/ \E w \in WorkerIds : ProcessJob_Read(w)
  \/ \E w \in WorkerIds : Agent_Chunk(w)
  \/ \E w \in WorkerIds : Agent_Eof(w)
  \/ \E w \in WorkerIds : AgentExit(w)
  \/ \E w \in WorkerIds : PostResult(w)
  \/ \E w \in WorkerIds : AppendAssistant(w)
  \/ \E w \in WorkerIds : Archive_Open(w)
  \/ \E w \in WorkerIds : Archive_Write(w)
  \/ \E w \in WorkerIds : Archive_Rename(w)
  \/ \E w \in WorkerIds : Fail_Open(w)
  \/ \E w \in WorkerIds : Fail_Write(w)
  \/ \E w \in WorkerIds : Fail_Unlink(w)
  \/ \E w \in WorkerIds : Fail_Notify(w)
  \/ \E w \in WorkerIds : CleanupOldThreads(w)
  \/ \E w \in WorkerIds : Sleep(w)
  \/ \E w \in WorkerIds : Child_CloseStdout(w)
  \/ \E w \in WorkerIds : Child_Exit(w)

SpecProgress == InitValidation /\ [][NextProgress]_vars

\* ---- the thread store used while the processor cleans up
\* appendMessage callers on one thread, and the main loop of the processor
\* of the same process with its periodic cleanup
NextCleanup ==
  \/ \E o \in Ops : \E ts \in TsValues : AppendMessage_Call(o, QueueThread, ts)
  \/ \E o \in Ops : LockedStep(o)
  \/ \E w \in WorkerIds : Poll_Readdir(w)
  \/ \E w \in WorkerIds : Loop_Done(w)
  \/ \E w \in WorkerIds : CleanupOldThreads(w)
  \/ \E w \in WorkerIds : Sleep(w)
  \/ TimePasses(QueueThread)

SpecCleanup == InitValidation /\ [][NextCleanup]_vars

\* two processors polling one queue
NextWorkers ==
  \/ \E f \in JobFileNames : QueueJob_Open(f)
  \/ \E f \in JobFileNames : QueueJob_Write(f)
  \/ \E f \in JobFileNames : QueueJob_Rename(f)
  \/ \E f \in DropFileNames : \E c \in DroppedShapes : ExternalDrop(f, c)
  \/ \E w \in WorkerIds : PollingStep(w)
  \/ \E w \in WorkerIds : Child_CloseStdout(w)
  \/ \E w \in WorkerIds : Child_Exit(w)

SpecWorkers == InitWorkers /\ [][NextWorkers]_vars

\* the processor's steps are scheduled as long as the process lives, and the
\* agent subprocess exits
FairSpecQueue ==
  /\ SpecQueue
  /\ WF_vars(ProcessorStep("w1"))
  /\ WF_vars(Child_CloseStdout("w1"))
  /\ WF_vars(Child_Exit("w1"))

\* ================================================================== claims
QueueDirNames == {"pending", "processing", "completed", "failed"}

QueueDir(d) ==
  CASE d = "pending" -> pending
    [] d = "processing" -> processing
    [] d = "completed" -> completed
    [] d = "failed" -> failed

DirsHolding(f) == {d \in QueueDirNames : Exists(QueueDir(d), f)}

\* <f> has appeared in pending/ at some time
Appeared(f) == shape[f] = "dropped" \/ qpc[f] = "done"

\* the processor is between two processJob calls
BetweenJobs(w) == pc[w] \in {"loop", "cleanup", "sleep", "poll"}

\* C1: once a job file has appeared in pending/, it exists in exactly one of
\* pending/, processing/, completed/, failed/ in every reachable state.
C1_ExactlyOneDirectory ==
  \A f \in JobFileNames : Appeared(f) => Cardinality(DirsHolding(f)) = 1

C7_RecoveredBeforeFirstPoll ==
  \A w \in WorkerIds :
    (pc[w] = "poll" /\ firstPoll)
      => /\ \A f \in atStartup : Exists(pending, f)
         /\ Listing(processing) = {}

C7_Witness ==
  \E w \in WorkerIds :
    /\ pc[w] = "poll" /\ firstPoll /\ atStartup # {}
    /\ \A f \in atStartup : Exists(pending, f)

\* C8: a job that was in processing/ when the process crashed is, after the
\* restart, eventually claimed again and handed to the agent again.
C8_RetriedAfterCrash ==
  \A f \in JobFileNames : (f \in owed) ~> (f \notin owed)

\* a step of recoverStuckJobs taken by worker w
RecoveryStep(w) ==
  /\ pc[w] \in {"recover", "recover_loop"}
  /\ pc'[w] # "start"
  /\ <<pc[w], jobFiles[w]>> # <<pc'[w], jobFiles'[w]>>

\* C9: a step of crash recovery leaves completed/ and failed/ alone and does
\* nothing but move a file, content unchanged, from processing/ to pending/;
\* with processing/ empty it leaves all four directories unchanged.
C9_RecoveryOnlyMoves ==
  [][\A w \in WorkerIds :
       RecoveryStep(w) =>
         /\ completed' = completed /\ failed' = failed /\ tmpdir' = tmpdir
         /\ \A f \in JobFileNames :
              \/ pending'[f] = pending[f] /\ processing'[f] = processing[f]
              \/ /\ Exists(processing, f)
                 /\ pending'[f] = processing[f]
                 /\ processing'[f] = NoFile
         /\ (Listing(processing) = {} =>
               pending' = pending /\ processing' = processing)]_vars

C9_Witness ==
  /\ crashes > 0 /\ firstPoll /\ atStartup # {}
  /\ \E w \in WorkerIds : pc[w] = "poll"
  /\ \E f \in atStartup : Exists(pending, f) /\ Exists(failed, f)

\* C10: with no crash, whenever the processor is between two jobs every file
\* it claimed has left processing/ (to completed/ or failed/), also when the
\* handling of the file failed.
C10_ClaimedFilesLeaveProcessing ==
  \A w \in WorkerIds :
    (crashes = 0 /\ BetweenJobs(w)) => Listing(processing) = {}


\* ---- thread store
\* o1 called withThreadLock before o2
Before(o1, o2) ==
  \E i, j \in 1..Len(order) : i < j /\ order[i] = o1 /\ order[j] = o2

\* the function passed to withThreadLock is running
InBody(o) == opc[o] \in {"app_load", "app_open", "app_write", "app_rename"}

Finished(o) == opc[o] = "done"

\* o's message was pushed (the dedup did not suppress it)
Added(o) == \E i \in 1..Len(ofile[o].msgs) : ofile[o].msgs[i].text = o

InOrder(msgs, o1, o2) ==
  \E i, j \in 1..Len(msgs) : i < j /\ msgs[i].text = o1 /\ msgs[j].text = o2

\* C2: of two locked operations on the same thread_ts the later one's body
\* does not start before the earlier one's body has finished, and once both
\* appends are complete the stored messages hold both additions in the
\* order of invocation.
C2_SameThreadSerialized ==
  \A o1, o2 \in Ops :
    (othread[o1] = othread[o2] /\ Before(o1, o2)) =>
      /\ (InBody(o2) \/ Finished(o2)) => Finished(o1)
      /\ (Finished(o1) /\ Finished(o2) /\ Added(o1) /\ Added(o2))
           => InOrder(threadFile[othread[o1]].msgs, o1, o2)

C2_Witness ==
  \E o1, o2 \in Ops :
    /\ othread[o1] = othread[o2] /\ Before(o1, o2)
    /\ oprev[o2] = o1 /\ owaited[o2]
    /\ Finished(o1) /\ Finished(o2)
    /\ InOrder(threadFile[othread[o1]].msgs, o1, o2)

\* a save, or the load-modify-save of an append, is in progress
Writing(o) ==
  opc[o] \in {"seed_write", "seed_rename", "app_open", "app_write", "app_rename"}

\* C3: no two writes to the same thread_ts file are in progress at once.
C3_WritesSerialized ==
  \A o1, o2 \in Ops :
    (o1 # o2 /\ othread[o1] = othread[o2]) => ~(Writing(o1) /\ Writing(o2))

\* C4: a locked operation whose thread has no unfinished earlier operation
\* can start, whatever is in flight on other threads.
C4_OtherThreadsDoNotBlock ==
  \A o \in Ops :
    (/\ opc[o] = "await_prev"
     /\ \A p \in Ops : (Before(p, o) /\ othread[p] = othread[o]) => Finished(p))
      => ~PrevPending(oprev[o])

C4_Witness ==
  \E o1, o2 \in Ops :
    /\ othread[o1] # othread[o2] /\ Before(o1, o2)
    /\ InBody(o1) /\ Finished(o2)

\* C5: the file at <thread_ts>.json is absent or the complete serialization
\* of a ThreadFile that was passed to saveThreadFile.
C5_ThreadFileNeverPartial ==
  \A t \in Threads :
    threadFile[t].kind = "none" \/ (threadFile[t].kind = "json" /\ threadFile[t] \in saved)


\* ---- agent failures
\* processJob is running for the file jobFile[w]
ProcessJobPcs ==
  {"read", "agent", "agent_wait", "post_result", "append", "archive_open",
   "archive_write", "archive_rename", "simple_post", "simple_open",
   "simple_write", "simple_unlink", "fail_open", "fail_write", "fail_unlink",
   "fail_notify"}

InProcessJob(w) == pc[w] \in ProcessJobPcs

Handling(f) == \E w \in WorkerIds : InProcessJob(w) /\ jobFile[w] = f

\* the agent ran for <f>, exited non-zero, and processJob has returned
AgentFailed(f) ==
  /\ crashes = 0
  /\ agentOut[f].state = "exited" /\ agentOut[f].code # 0
  /\ ~Handling(f)

\* the text of message m contains E
Contains(m, E) == E = "" \/ (m.kind = "apology" /\ m.arg = E)

PostsContaining(f, E) ==
  {i \in DOMAIN posts[f] : posts[f][i].to = "thread" /\ Contains(posts[f][i], E)}

Apologies(f) == {i \in DOMAIN posts[f] : posts[f][i].kind = "apology"}

\* C11 as stated: after the agent exited non-zero with stderr E for a
\* well-formed job, the file is in failed/ and not in processing/, the
\* persisted JSON has error = E and failed_at, and exactly one message
\* containing E was posted to the job's thread.
C11_Original ==
  \A f \in JobFileNames :
    AgentFailed(f) =>
      /\ failed[f].kind = "json" /\ ~Exists(processing, f)
      /\ failed[f].error = agentOut[f].stderr /\ failed[f].failed_at
      /\ Cardinality(PostsContaining(f, agentOut[f].stderr)) = 1

\* C11 (amended): after the agent exited non-zero with stderr E for a
\* well-formed job, the file is in failed/ and not in processing/, the
\* persisted JSON is the job with failed_at and error = E, or the exit-code
\* text when E is empty, and the failure apology carrying that error is
\* posted to the job's thread at most once (not at all when the platform
\* rejects it); no other apology and no result is posted.
C11_AgentFailureDeadLettered ==
  \A f \in JobFileNames :
    AgentFailed(f) =>
      LET E == agentOut[f].stderr
          error == IF E # "" THEN E ELSE "Claude CLI exited with code 1"
      IN /\ failed[f] = [SlackJob EXCEPT !.started_at = failed[f].started_at,
                                         !.error = error, !.failed_at = TRUE]
         /\ failed[f].started_at # 0
         /\ ~Exists(processing, f)
         /\ Cardinality(Apologies(f)) <= 1
         /\ \A i \in Apologies(f) : posts[f][i] = Post("thread", "apology", error)
         /\ \A i \in DOMAIN posts[f] : posts[f][i].kind # "result"

C11_Witness ==
  \E f \in JobFileNames :
    /\ AgentFailed(f) /\ agentOut[f].stderr = "boom"
    /\ failed[f].error = "boom" /\ failed[f].failed_at
    /\ posts[f] = <<Post("thread", "apology", "boom")>>

\* ---- terminal states
\* <f> is complete in completed/ or in failed/
Terminal(f) == completed[f].kind = "json" \/ failed[f].kind = "json"

\* C12: once a job file is in completed/ or failed/, no step moves or
\* rewrites that file or invokes the agent for it again.
C12_TerminalIsFinal ==
  [][\A f \in JobFileNames :
       Terminal(f) =>
         /\ completed'[f] = completed[f]
         /\ failed'[f] = failed[f]
         /\ invoked'[f] = invoked[f]]_vars

\* ---- seriality
Running_(w) == child[w].state \in {"running", "closed"}

\* worker w starts processJob for a file
StartsProcessJob(w) == ~InProcessJob(w) /\ InProcessJob(w)'

\* C13: at most one processJob call is in progress and at most one agent
\* subprocess is running, and processJob starts for a file only when no
\* earlier call is still in progress.
C13_StrictlySerial ==
  /\ [](Cardinality({w \in WorkerIds : InProcessJob(w)}) <= 1)
  /\ [](Cardinality({w \in WorkerIds : Running_(w)}) <= 1)
  /\ [][\A w \in WorkerIds :
         StartsProcessJob(w) => \A v \in WorkerIds : ~InProcessJob(v)]_vars

C13_Witness ==
  \E w \in WorkerIds : \E f, g \in JobFileNames :
    /\ f # g /\ crashes = 0
    /\ invoked[f] = 1 /\ Terminal(f) /\ ~Exists(processing, f)
    /\ pc[w] = "agent" /\ jobFile[w] = g /\ child[w].state = "running"

\* ---- no timeout
\* the queue directories' entries for <f>
Entries(f) == <<pending[f], processing[f], completed[f], failed[f]>>

\* C14: while the child of a job runs (it has not exited), no step changes
\* the job's file in any queue directory, and nothing but the child's own
\* exit ends the child while the processor lives: the processor waits in
\* place, without a deadline, until stdout is closed and the child has exited.
C14_NoTimeout ==
  [][\A w \in WorkerIds :
       Running_(w) =>
         /\ \E f \in JobFileNames : f = jobFile[w] /\ Entries(f)' = Entries(f)
         /\ ~Running_(w)' =>
              \/ crashes' # crashes
              \/ child'[w].state = "exited" /\ pc'[w] = pc[w]]_vars

C14_Witness ==
  \E w \in WorkerIds : \E f, g \in JobFileNames :
    /\ pc[w] = "agent_wait" /\ child[w].state = "closed" /\ jobFile[w] = f
    /\ processing[f].kind = "json" /\ pending[g] = SlackJob

\* ---- two processors
\* C15: with two processors polling the queue, a file is claimed at most
\* once and never handled by both, the agent is invoked at most once per
\* claim, and a processor whose rename fails goes on to the next file
\* without changing a queue directory, posting or invoking the agent.
C15_ClaimedByOne ==
  /\ [](\A f \in JobFileNames : claimed[f] <= 1 /\ invoked[f] <= claimed[f])
  /\ [](\A w, v \in WorkerIds :
          (w # v /\ InProcessJob(w) /\ InProcessJob(v)) => jobFile[w] # jobFile[v])
  /\ [][\A w \in WorkerIds :
         (pc[w] = "loop" /\ jobFiles'[w] # jobFiles[w] /\ claimed' = claimed) =>
           /\ pc'[w] = "loop"
           /\ queueDirs' = queueDirs /\ posts' = posts
           /\ invoked' = invoked /\ child' = child]_vars

\* both processors listed <f>; one has claimed it and invoked the agent, the
\* other has tried, lost and gone on
C15_Witness ==
  \E w, v \in WorkerIds : \E f \in JobFileNames :
    /\ w # v /\ InProcessJob(w) /\ jobFile[w] = f /\ invoked[f] = 1
    /\ pc[v] = "loop" /\ <<v, f>> \in skipped

\* ---- transcripts
Stored == threadFile[QueueThread]

\* the messages a caller may pass to appendMessage
AppendMsgs ==
  {[role |-> "user", name |-> "alice", text |-> text, ts |-> ts] :
     text \in Texts, ts \in AppendTs}

\* C16: the stored thread file always has message_count = len(messages).
C16_CountIsLength ==
  \A t \in Threads :
    threadFile[t].kind = "json" => threadFile[t].count = Len(threadFile[t].msgs)

\* three messages pushed, then a duplicate offered and dropped
C16_Witness ==
  /\ Stored.kind = "json" /\ Len(Stored.msgs) = 3 /\ Stored.count = 3
  /\ opc[SerialCaller] = "dropped"
  /\ \A i \in 1..3 : Stored.msgs[i].text \in Texts

\* the ts values of the dedup window of the stored file
WindowTs == TsOf(LastN(Stored.msgs, DEDUP_WINDOW))

\* C17: an append whose ts is among the last 5 stored messages leaves the
\* stored messages and message_count unchanged, whatever its text; and after
\* any append of m, a second append of m changes nothing.
C17_DedupIdempotent ==
  [][\A msg \in AppendMsgs :
       AppendMessage_Serial(QueueThread, msg) =>
         /\ (Stored.kind = "json" /\ msg.ts \in WindowTs)
              => threadFile'[QueueThread] = Stored
         /\ AppendedFile(threadFile'[QueueThread], msg) = threadFile'[QueueThread]]_vars

\* five messages stored, and an append with the ts of one of them dropped
C17_Witness ==
  /\ Stored.kind = "json" /\ Len(Stored.msgs) = 5
  /\ opc[SerialCaller] = "dropped"

\* C18: an append whose ts occurs in the file only before the last 5
\* messages is pushed: the file grows by that message.
C18_WindowIsLastFive ==
  [][\A msg \in AppendMsgs :
       (/\ AppendMessage_Serial(QueueThread, msg)
        /\ Stored.kind = "json"
        /\ msg.ts \in TsOf(Stored.msgs) /\ msg.ts \notin WindowTs)
         => threadFile'[QueueThread] =
              ThreadJson(Len(Stored.msgs) + 1, Append(Stored.msgs, msg))]_vars

\* six appends with distinct ts, then the first ts again: 7 messages
C18_Witness ==
  /\ Stored.kind = "json" /\ Len(Stored.msgs) = 7 /\ platform[QueueThread] = <<>>
  /\ \A i \in 1..6 : Stored.msgs[i].ts = i /\ Stored.msgs[i].text = "x"
  /\ Stored.msgs[7].ts = 1
  /\ opc[SerialCaller] = "done"

\* C19: in every stored thread file the ts values of the last 5 messages
\* are pairwise distinct.
C19_LastFiveDistinct ==
  \A t \in Threads :
    threadFile[t].kind = "json" =>
      LET tail == LastN(threadFile[t].msgs, DEDUP_WINDOW)
      IN \A i, j \in 1..Len(tail) : i # j => tail[i].ts # tail[j].ts

\* a seeded file that grew by appends and holds a ts twice, five apart
C19_Witness ==
  /\ Stored.kind = "json" /\ Len(Stored.msgs) >= 7
  /\ Stored.msgs[1].text = "p" /\ Stored.msgs[2].text = "p"
  /\ \E i \in 3..Len(Stored.msgs) : Stored.msgs[i].ts = Stored.msgs[1].ts

\* ---- intake's first encounter of a thread
\* o is an intake handler: its message is in the platform's thread
IsIntake(o) ==
  \E i \in 1..Len(platform[othread[o]]) : platform[othread[o]][i].text = o

\* callers arrive in the order of their numbers
FirstIntake(o) ==
  /\ IsIntake(o)
  /\ \A p \in Ops : (IsIntake(p) /\ othread[p] = othread[o]) => OpIndex(o) <= OpIndex(p)

\* what a seed stores of the thread's messages before o's own
EarlierMessages(o) ==
  LET raw == platform[othread[o]]
      own == CHOOSE i \in 1..Len(raw) : raw[i].text = o
  IN SeedMessages(SubSeq(raw, 1, own - 1), BridgeBotId)

\* C20: when the first intake handler of a thread gets its transcript back
\* from appendMessage, the transcript holds the messages the platform has of
\* the thread before the handler's own, the root message included.
C20_SeededOnFirstEncounter ==
  [][\A o \in Ops :
       (/\ FirstIntake(o)
        /\ opc[o] = "app_rename" /\ CanRename(o) /\ opc'[o] = "done")
         => \A i \in 1..Len(EarlierMessages(o)) :
              \E j \in 1..Len(ofile[o].msgs) : ofile[o].msgs[j] = EarlierMessages(o)[i]]_vars

\* ---- formatThreadContext
Formatted == args.fn = "formatThreadContext" /\ ret.done

\* the rendering of a body between the tags, followed by the fence
Wrapped(body) == ContextOpen \o body \o ContextClose \o fence

\* the last 10 messages of the file formatted, and the messages before them
TailOf(file) == LastN(file.msgs, VERBATIM_TAIL_COUNT)

OlderOf(file) == SubSeq(file.msgs, 1, Len(file.msgs) - Len(TailOf(file)))

\* the older messages from the k-th on, in full or cut to the first sentence
OlderFull(file, k) ==
  RenderMessages(SubSeq(OlderOf(file), k, Len(OlderOf(file))))

OlderShort(file, k) ==
  Join([i \in 1..(Len(OlderOf(file)) - k + 1) |->
          RenderSingleMessage(OlderOf(file)[k + i - 1],
                              ExtractFirstSentence(OlderOf(file)[k + i - 1].text))])

\* C21: when the budget admits the tags, the fence and the last 10 messages
\* in full, the output is no longer than the budget.
C21_WithinBudget ==
  (Formatted /\ args.budgetChars >= Len(Wrapped(RenderMessages(TailOf(args.file)))))
    => Len(ret.value) <= args.budgetChars

\* 12 messages that do not fit in full: one older message was dropped, the
\* other is still there
C21_Witness ==
  /\ Formatted /\ Len(args.file.msgs) = 12
  /\ args.budgetChars >= Len(Wrapped(RenderMessages(TailOf(args.file))))
  /\ args.budgetChars < Len(Wrapped(RenderMessages(args.file.msgs)))
  /\ ret.value = Wrapped(OlderShort(args.file, 2) \o RenderMessages(TailOf(args.file)))
  /\ Len(ret.value) = args.budgetChars

\* C22: the output renders a suffix of the messages: the last 10 in full,
\* before them the older messages from some k on, all in full or all cut to
\* their first sentence.
C22_SuffixWithTail ==
  Formatted =>
    \E k \in 1..(Len(OlderOf(args.file)) + 1) :
      \/ ret.value = Wrapped(OlderFull(args.file, k) \o RenderMessages(TailOf(args.file)))
      \/ ret.value = Wrapped(OlderShort(args.file, k) \o RenderMessages(TailOf(args.file)))

\* a budget of 0 on 12 messages: both older messages are gone, the last 10
\* are there in full
C22_Witness ==
  /\ Formatted /\ Len(args.file.msgs) = 12 /\ args.budgetChars = 0
  /\ ret.value = Wrapped(RenderMessages(TailOf(args.file)))
  /\ ExtractFirstSentence(args.file.msgs[12].text) # args.file.msgs[12].text

\* C23: the output ends with the closing tag followed by the whole fence.
C23_FenceComplete ==
  Formatted =>
    /\ Len(ret.value) >= Len(ContextClose \o fence)
    /\ Slice(ret.value, Len(ret.value) - Len(ContextClose \o fence), Len(ret.value))
         = ContextClose \o fence

\* a file without messages, and a budget smaller than the fence
C23_Witness ==
  /\ Formatted /\ args.file.msgs = <<>> /\ args.budgetChars = 0
  /\ ret.value = ContextOpen \o ContextClose \o fence

\* ---- truncateAtNaturalBoundary
Truncated == args.fn = "truncateAtNaturalBoundary" /\ ret.done

\* C24: the result is no longer than n, is a prefix of the text, and is the
\* text itself when the text is no longer than n.
C24_TruncatedPrefix ==
  Truncated =>
    /\ Len(ret.value) <= args.maxChars
    /\ ret.value = Slice(args.text, 0, Len(ret.value))
    /\ Len(args.text) <= args.maxChars => ret.value = args.text

\* a text cut at its paragraph break although a sentence ends later, before
\* the limit
C24_Witness ==
  /\ Truncated /\ Len(args.text) > args.maxChars
  /\ LastIndexOf(Slice(args.text, 0, args.maxChars), <<".", " ">>)
       > LastIndexOf(Slice(args.text, 0, args.maxChars), <<"\n", "\n">>)
  /\ Len(ret.value) = LastIndexOf(args.text, <<"\n", "\n">>)
  /\ Len(ret.value) > 0

\* ---- formatForSlack
SlackFormatted == args.fn = "formatForSlack" /\ ret.done

EndsWith(s, suffix) ==
  /\ Len(s) >= Len(suffix)
  /\ Slice(s, Len(s) - Len(suffix), Len(s)) = suffix

\* C25: the output is no longer than max_output_chars; it ends with the
\* truncation suffix when the stripped stdout is longer than that, and is
\* the stripped stdout otherwise.
C25_OutputWithinMax ==
  SlackFormatted =>
    /\ Len(ret.value) <= args.maxLength
    /\ IF Len(StripAnsi(args.text)) > args.maxLength
         THEN EndsWith(ret.value, TruncatedSuffix)
         ELSE ret.value = StripAnsi(args.text)

\* ---- seedFromSlack
\* the messages of the thread that a seed keeps, and what they become
Kept(m) ==
  /\ m.text # ""
  /\ \/ m.user = BridgeBotId
     \/ ~m.bot_id /\ m.user # ""

Converted(m) ==
  IF m.user = BridgeBotId
    THEN [role |-> "assistant", name |-> "pai-slack-bridge", text |-> m.text, ts |-> m.ts]
    ELSE [role |-> "user", name |-> IF m.user = "U1" THEN "alice" ELSE m.user,
          text |-> m.text, ts |-> m.ts]

KeptMessages(raw) ==
  LET kept == SelectSeq(raw, Kept)
  IN [i \in 1..Len(kept) |-> Converted(kept[i])]

\* C26: a seed persists exactly the kept messages of the thread, converted,
\* in the platform's order, with message_count their number.
C26_SeedClassifies ==
  [][SeedFromSlack_Serial(QueueThread) =>
       threadFile'[QueueThread] =
         ThreadJson(Len(KeptMessages(platform[QueueThread])),
                    KeptMessages(platform[QueueThread]))]_vars

\* a user's message, another bot's and the bridge's own (which carries a
\* bot_id too), seeded into two messages
C26_Witness ==
  /\ opc[SerialCaller] = "seeded"
  /\ Len(platform[QueueThread]) = 3
  /\ platform[QueueThread][1].user = "U1" /\ ~platform[QueueThread][1].bot_id
  /\ platform[QueueThread][2].user = "U2" /\ platform[QueueThread][2].bot_id
  /\ platform[QueueThread][3].user = BridgeBotId /\ platform[QueueThread][3].bot_id
  /\ \A i \in 1..3 : platform[QueueThread][i].text = "p"
  /\ Stored = ThreadJson(2, <<[role |-> "user", name |-> "alice", text |-> "p", ts |-> 1],
                             [role |-> "assistant", name |-> "pai-slack-bridge",
                              text |-> "p", ts |-> 3]>>)

\* ---- intake
\* the job file f is somewhere in the queue
Enqueued(f) ==
  Exists(pending, f) \/ Exists(processing, f) \/ Exists(completed, f) \/ Exists(failed, f)

\* the copies of job f that parse
JobCopies(f) ==
  {d[f] : d \in {tmpdir, pending, processing, completed, failed}} \ {c \in {tmpdir[f], pending[f], processing[f], completed[f], failed[f]} : c.kind # "json"}

Acked(f) == \E i \in 1..Len(said[f]) : said[f][i].kind = "ack"

Apologized(f) == \E i \in 1..Len(said[f]) : said[f][i].kind = "apology"

FromIntake(f) == shape[f] \in {"queued", "refused"}

\* C27: an ack is posted only for a job that is in the queue; the job and
\* everything posted for it carry reply_ts; once sendQueuedAck has
\* returned, posted or not, the job is in the queue.
C27_EnqueueBeforeAck ==
  \A f \in JobFileNames :
    FromIntake(f) =>
      /\ Acked(f) => Enqueued(f)
      /\ qpc[f] = "returned" => Enqueued(f)
      /\ \A c \in JobCopies(f) : c.thread_ts = ReplyTs(event[f])
      /\ \A i \in 1..Len(said[f]) : said[f][i].thread_ts = ReplyTs(event[f])

\* a reply in a thread, acknowledged in that thread while its job waits in
\* pending/, and a top-level message whose ack was rejected, its job queued
C27_Witness ==
  /\ event["a.json"].thread_ts = 1 /\ event["a.json"].ts = 2
  /\ said["a.json"] = <<[kind |-> "ack", thread_ts |-> 1]>>
  /\ pending["a.json"] = [SlackJob EXCEPT !.thread_ts = 1]
  /\ event["b.json"] = DefaultEvent
  /\ qpc["b.json"] = "returned" /\ said["b.json"] = <<>>
  /\ Exists(pending, "b.json")

\* C28: a handler that caught an exception has posted the apology to
\* reply_ts and no ack, its job is not in pending/, and no exception leaves
\* a handler.
C28_ExceptionsCaught ==
  \A f \in JobFileNames :
    /\ qpc[f] # "escaped"
    /\ qpc[f] = "apologized" =>
         /\ said[f] = <<[kind |-> "apology", thread_ts |-> ReplyTs(event[f])]>>
         /\ ~Exists(pending, f)

\* ---- the success path of an agent job
IsAgentJob(c) == c.kind = "json" /\ ~IsSimpleNotification(c)

ResultPosted(f) ==
  \E i \in 1..Len(posts[f]) : posts[f][i] = Post("thread", "result", "output")

\* C29: the processor is at the append or at the archiving of a job only
\* once the job's result is posted, and archives after the append; an agent
\* job in completed/ has its result posted and carries started_at and
\* completed_at with started_at <= completed_at.
C29_PostAppendArchive ==
  /\ \A w \in WorkerIds :
       pc[w] \in {"append", "archive_open", "archive_write", "archive_rename"}
         => ResultPosted(jobFile[w])
  /\ \A w \in WorkerIds :
       pc[w] \in {"post_result", "append", "archive_open", "archive_write", "archive_rename"}
         => ~Exists(completed, jobFile[w])
  /\ \A f \in JobFileNames :
       IsAgentJob(completed[f]) =>
         /\ ResultPosted(f)
         /\ completed[f].started_at # 0
         /\ completed[f].completed_at # 0
         /\ completed[f].started_at <= completed[f].completed_at

\* a job archived with the assistant message stored in between, and one
\* archived though the thread store refused the message
C29_Witness ==
  /\ IsAgentJob(completed["a.json"])
  /\ completed["a.json"].started_at < completed["a.json"].completed_at
  /\ IsAgentJob(completed["b.json"])
  /\ completed["b.json"].started_at = completed["b.json"].completed_at

\* ---- validation
\* the job in file f, wherever the file is
JobOf(f) ==
  IF pending[f].kind = "json" THEN pending[f]
  ELSE IF processing[f].kind = "json" THEN processing[f]
  ELSE failed[f]

Invalid(f) ==
  /\ shape[f] = "dropped"
  /\ JobOf(f).kind = "json"
  /\ ~(JobOf(f).text /\ ~JobOf(f).prompt)
  /\ \/ ~JobOf(f).id \/ ~JobOf(f).channel \/ JobOf(f).thread_ts = 0
     \/ ~JobOf(f).user \/ ~JobOf(f).prompt

\* processJob has returned for f
Handled(f) == f \in everClaimed /\ ~Handling(f)

\* C30: for an agent-shaped job that lacks a required field the agent is
\* never invoked and no result is posted; once processJob has returned the
\* file is in failed/ only, with the validation error and failed_at; an
\* apology is posted only if the job has channel and thread_ts, carries the
\* validation error and is posted at most once.
C30_InvalidDeadLettered ==
  \A f \in JobFileNames :
    Invalid(f) =>
      /\ invoked[f] = 0 /\ agentOut[f] = NoChild
      /\ ~ResultPosted(f)
      /\ ~Exists(completed, f)
      /\ Handled(f) =>
           /\ ~Exists(pending, f) /\ ~Exists(processing, f)
           /\ failed[f].kind = "json"
           /\ failed[f].error = "Missing required fields"
           /\ failed[f].failed_at
           /\ failed[f].started_at = 0
      /\ Apologies(f) # {} => JobOf(f).channel /\ JobOf(f).thread_ts # 0
      /\ Cardinality(Apologies(f)) <= 1
      /\ \A i \in DOMAIN posts[f] :
           posts[f][i] = Post("thread", "apology", "Missing required fields")

\* a job without user got its apology; a job with a channel and no
\* thread_ts is dead-lettered without one
C30_Witness ==
  /\ Invalid("a.json") /\ Handled("a.json")
  /\ ~JobOf("a.json").user /\ JobOf("a.json").channel
  /\ Apologies("a.json") # {}
  /\ Invalid("b.json") /\ Handled("b.json")
  /\ JobOf("b.json").channel /\ JobOf("b.json").thread_ts = 0
  /\ posts["b.json"] = <<>>

\* ---- simple notifications
\* the copies of file f that parse, in the directories of the processor
ParsedCopies(f) ==
  {c \in {pending[f], processing[f], completed[f], failed[f]} : c.kind = "json"}

\* f was produced with text and without prompt
SimpleFile(f) ==
  /\ shape[f] = "dropped"
  /\ \E c \in ParsedCopies(f) : c.text /\ ~c.prompt

WithChannel(f) == \E c \in ParsedCopies(f) : c.channel

TextPosts(f) == {i \in DOMAIN posts[f] : posts[f][i].kind = "text"}

\* the notification was delivered and recorded
Notified(f) ==
  /\ posts[f] = <<Post("channel", "text", "text")>>
  /\ completed[f].kind = "json" /\ completed[f].channel /\ completed[f].text
  /\ completed[f].started_at # 0 /\ completed[f].completed_at # 0
  /\ ~Exists(processing, f) /\ ~Exists(pending, f) /\ ~Exists(failed, f)

\* the notification was dead-lettered with the error msg and nothing of it
\* was posted to the channel
DeadLettered(f, msg) ==
  /\ failed[f].kind = "json" /\ failed[f].error = msg /\ failed[f].failed_at
  /\ TextPosts(f) = {}
  /\ ~Exists(processing, f) /\ ~Exists(pending, f) /\ ~Exists(completed, f)

Reports(f) ==
  LET told == SelectSeq(stream[f], LAMBDA c : c.progress # NoPhase)
  IN [k \in 1..Len(told) |-> told[k].progress]

\* the phase last reported before chunk i of job f
LastReported(f, i) ==
  LET before == {j \in 1..(i - 1) : stream[f][j].progress # NoPhase}
  IN IF before = {} THEN NoPhase
     ELSE stream[f][CHOOSE j \in before : \A k \in before : k <= j].progress

\* the phase of the first pattern, in priority order, that matches the text
FirstMatch(text) ==
  IF \A k \in 1..Len(PHASE_PATTERNS) : ~Test(PHASE_PATTERNS[k].pattern, text)
    THEN NoPhase
    ELSE LET k == CHOOSE k \in 1..Len(PHASE_PATTERNS) :
                    /\ Test(PHASE_PATTERNS[k].pattern, text)
                    /\ \A j \in 1..(k - 1) : ~Test(PHASE_PATTERNS[j].pattern, text)
         IN PHASE_PATTERNS[k].phase

\* C32: within one job no phase is reported twice.
C32_EachPhaseOnce ==
  \A f \in JobFileNames :
    \A i, j \in 1..Len(Reports(f)) : i # j => Reports(f)[i] # Reports(f)[j]

\* C33: a chunk is reported with phase p exactly when its first matching
\* pattern yields p and p is not the phase last reported; so consecutive
\* reports differ, and a chunk without a match reports nothing.
C33_ReportOnChange ==
  \A f \in JobFileNames :
    /\ \A i \in 1..Len(stream[f]) :
         LET p == FirstMatch(stream[f][i].text)
         IN stream[f][i].progress =
              IF p # NoPhase /\ p # LastReported(f, i) THEN p ELSE NoPhase
    /\ \A i \in 1..(Len(Reports(f)) - 1) : Reports(f)[i] # Reports(f)[i + 1]
    /\ \A w \in WorkerIds :
         pc[w] \in {"agent", "agent_wait"} /\ jobFile[w] = f
           => lastPhase[w] = LastReported(f, Len(stream[f]) + 1)

\* a chunk naming two phases was reported by the one of higher priority, a
\* chunk repeating the last report and a chunk without a phase were passed
\* over, and the next phase was reported
C33_Witness ==
  \E f \in JobFileNames :
    /\ Len(stream[f]) = 3
    /\ Len(stream[f][1].text) > 7 /\ stream[f][1].progress = "OBSERVE"
    /\ FirstMatch(stream[f][2].text) \in {"OBSERVE", NoPhase}
    /\ stream[f][2].progress = NoPhase
    /\ stream[f][3].progress = "THINK"

\* ---- progress posts that fail
\* a chunk of some agent's stdout is read in this step
ReadsChunk == \E f \in JobFileNames : stream'[f] # stream[f]

ProgressPosts(f) == {i \in DOMAIN posts[f] : posts[f][i].kind = "progress"}

\* C34: the step that reads a chunk and reports a phase leaves processJob
\* where it is whether the post is accepted or rejected: nothing is thrown,
\* no file moves, the child runs on; and the outcome of a handled job is
\* decided by the agent's exit code and the post of the result alone.
C34_ProgressNeverFails ==
  /\ [][ReadsChunk => UNCHANGED <<pc, errorMsg, parsedJob, jobFile, queueDirs, child>>]_vars
  /\ [](\A f \in JobFileNames :
          shape[f] = "dropped" /\ Handled(f) /\ invoked[f] = 1 /\ agentOut[f] # NoChild =>
            IF agentOut[f].code = 0
              THEN \/ ResultPosted(f) /\ IsAgentJob(completed[f]) /\ ~Exists(failed, f)
                   \/ /\ ~ResultPosted(f) /\ failed[f].kind = "json"
                      /\ failed[f].error = "slack" /\ ~Exists(completed, f)
              ELSE /\ failed[f].kind = "json" /\ failed[f].error = ExitError(agentOut[f])
                   /\ ~ResultPosted(f) /\ ~Exists(completed, f))

\* phases were reported and every progress post was rejected; the job is
\* completed and its result posted
C34_Witness ==
  \E f \in JobFileNames :
    /\ Len(Reports(f)) >= 2 /\ ProgressPosts(f) = {}
    /\ Handled(f) /\ ResultPosted(f) /\ IsAgentJob(completed[f])

\* ---- the assistant append fails
\* the result of f was posted, the append is over, and no transcript was
\* stored (the processor is the only user of the thread store)
AppendFailed(f) ==
  /\ ResultPosted(f)
  /\ \A w \in WorkerIds : ~(pc[w] \in {"post_result", "append"} /\ jobFile[w] = f)
  /\ threadFile[QueueThread].kind = "none"
  /\ saved = {}

\* C35: a job whose result was posted and whose assistant message could not
\* be stored is never in failed/, gets no apology, and once processJob has
\* returned it is in completed/ with its stamps and gone from processing/.
C35_AppendFailureCompletes ==
  \A f \in JobFileNames :
    AppendFailed(f) =>
      /\ ~Exists(failed, f)
      /\ Apologies(f) = {}
      /\ \A w \in WorkerIds : jobFile[w] = f => pc[w] \notin {"fail_open", "fail_write", "fail_unlink", "fail_notify"}
      /\ Handled(f) =>
           /\ IsAgentJob(completed[f]) /\ completed[f].completed_at # 0
           /\ ~Exists(processing, f) /\ ~Exists(pending, f)

C35_Witness ==
  \E f \in JobFileNames :
    /\ AppendFailed(f) /\ Handled(f)
    /\ IsAgentJob(completed[f]) /\ posts[f] = <<Post("thread", "result", "output")>>

\* ---- no job is lost
FourDirs(f) == {pending[f], processing[f], completed[f], failed[f]}

\* the file f is present, under its name, in one of the four directories
Present(f) == \E c \in FourDirs(f) : c.kind # "none"

\* one of the four directories holds a complete file f
Intact(f) == \E c \in FourDirs(f) : c.kind \in {"json", "garbage"}

\* the presence half of C36
C36_NeverAbsent == \A f \in JobFileNames : Appeared(f) => Present(f)

\* C36: a job file that has appeared in pending/ is in one of the four
\* directories from then on, and while no processJob call holds it in memory
\* one of them holds its complete content: no interruption loses the job.
C36_JobNeverLost ==
  \A f \in JobFileNames :
    Appeared(f) => Present(f) /\ (~Handling(f) => Intact(f))

\* ---- the lock map and cleanup
\* C37: with cleanup in the interleaving, of two locked operations on the
\* same thread_ts the later one is in its body, or past it, only when the
\* earlier one has finished.
C37_ExclusionWithCleanup ==
  \A o1, o2 \in Ops :
    (othread[o1] = othread[o2] /\ Before(o1, o2) /\ (InBody(o2) \/ Finished(o2)))
      => Finished(o1)

\* ---- concurrent intake on one thread
\* buildThreadContext of o has returned
Returned(o) == IsIntake(o) /\ opc[o] = "done"

\* C38: once two intake handlers of the same thread_ts have both finished,
\* and nothing else is using the store, the stored transcript holds the
\* user message of each.
C38_NoUserMessageLost ==
  \A o1, o2 \in Ops :
    (/\ o1 # o2 /\ othread[o1] = othread[o2]
     /\ Returned(o1) /\ Returned(o2) /\ NoCallerInFlight)
      => /\ threadFile[othread[o1]].kind = "json"
         /\ omsg[o1].ts \in StoredTs(othread[o1])
         /\ omsg[o2].ts \in StoredTs(othread[o1])

\* ---- the lock is released on failure
Thrown(o) == opc[o] = "thrown"

Over(o) == Finished(o) \/ Thrown(o)

\* C39: when the locked function of an operation throws, the operations
\* queued behind it on the same thread_ts are not held back: an operation
\* waits only for earlier ones that are still in progress, bodies run in the
\* order of the calls, and every operation that called withThreadLock gets
\* to its end.
C39_LockAlwaysReleased ==
  /\ [](\A o \in Ops :
          (/\ opc[o] = "await_prev"
           /\ \A p \in Ops : (Before(p, o) /\ othread[p] = othread[o]) => Over(p))
            => ~PrevPending(oprev[o]))
  /\ [](\A o1, o2 \in Ops :
          (othread[o1] = othread[o2] /\ Before(o1, o2) /\ (InBody(o2) \/ Over(o2)))
            => Over(o1))
  /\ \A o \in Ops : (opc[o] = "await_prev") ~> Over(o)

\* two operations failed one after the other, and the one queued behind
\* them on the same thread_ts, which had to wait, has run to its end
C39_Witness ==
  /\ othread["o1"] = othread["o2"] /\ othread["o2"] = othread["o3"]
  /\ order = <<"o1", "o2", "o3">>
  /\ Thrown("o1") /\ Thrown("o2")
  /\ oprev["o3"] = "o2" /\ owaited["o3"]
  /\ Finished("o3")

\* ---- a failure while the thread context is assembled
ContextFailed(f) == context[f] = "failed"

\* C40: when load, seed, append or format rejected inside
\* buildThreadContext, the handler goes on to queueJob: it is in its catch
\* block, or has apologized, only if queueJob itself rejected; no copy of
\* the job carries a thread_context; and once the handler returned the job
\* is in the queue and nothing but the acknowledgment was posted for it.
C40_ContextFailureStillQueues ==
  \A f \in JobFileNames :
    ContextFailed(f) =>
      /\ qpc[f] \in {"caught", "apologized", "escaped"} => shape[f] = "refused"
      /\ Apologized(f) => shape[f] = "refused"
      /\ \A c \in JobCopies(f) : ~c.thread_context
      /\ qpc[f] = "returned" =>
           /\ Enqueued(f)
           /\ said[f] \in {<<>>, <<Said(f, "ack")>>}

\* a reply in a thread whose context could not be assembled: its job waits
\* in pending/ without thread_context and was acknowledged in the thread,
\* next to a reply whose context was built and is in its job
C40_Witness ==
  /\ event["a.json"].thread_ts = 1 /\ event["a.json"].ts = 2
  /\ ContextFailed("a.json")
  /\ qpc["a.json"] = "returned"
  /\ pending["a.json"] = [SlackJob EXCEPT !.thread_ts = 1]
  /\ said["a.json"] = <<[kind |-> "ack", thread_ts |-> 1]>>
  /\ context["b.json"] = "built"
  /\ Exists(pending, "b.json") /\ pending["b.json"].thread_context

====
